---- MODULE Spec2Model ----
(***************************************************************************)
(* Verification model of the disaster-warning ingestion pipeline:          *)
(*   - EventDeduplicator      (src/core/event_deduplicator.py)             *)
(*   - WebSocketManager       (src/core/websocket_manager.py)              *)
(*   - ReportCountController  (src/core/filters/report_controller.py)      *)
(* Times are whole seconds, coordinates hundredths of a degree and         *)
(* magnitudes tenths of a unit, so that the quantisation done by the code  *)
(* is integer arithmetic here.                                             *)
(***************************************************************************)
EXTENDS Integers, Sequences, FiniteSets, TLC

VARIABLES
    recent_events,      \* EventDeduplicator.recent_events: fingerprint -> source_id -> record
    now,                \* the wall clock read by datetime.now()
    dedup_calls,        \* number of should_push_event calls made so far (bounded)
    accepted_history,   \* history: per fingerprint and source, the events accepted in the current record
    last_call,          \* history: the last should_push_event call, its record before the call and its result
    entry_updated_at,   \* history: per fingerprint and source, the wall clock when the record was last written
    last_cleanup        \* history: the last cleanup_old_events call, recent_events before it and whether it raised

dedupVars == <<recent_events, now, dedup_calls, accepted_history, last_call,
               entry_updated_at, last_cleanup>>


VARIABLES
    report_config,        \* ReportCountController: the divisors and the two toggles
    event_report_counts,  \* ReportCountController.event_report_counts
    last_report           \* history: the last should_push_report call and its result

gateVars == <<report_config, event_report_counts, last_report>>

VARIABLES
    started,                  \* DisasterWarningService.start has run
    running,                  \* WebSocketManager.running
    connections,              \* WebSocketManager.connections: the names, in insertion order
    connection_info,          \* WebSocketManager.connection_info: name -> stored info
    connection_retry_counts,  \* WebSocketManager.connection_retry_counts (absent reads as 0)
    reconnect_tasks,          \* WebSocketManager.reconnect_tasks: name -> a task is registered
    tasks,                    \* the asyncio tasks: <<kind, name>> -> position and arguments
    ready,                    \* the event loop's queue of tasks ready to run, in order
    stop_pc,                  \* position of the task running DisasterWarningService.stop
    stop_rest,                \* stop: the names of its disconnect loop still to do
    handshakes,               \* number of successful handshakes so far (bounded)
    conn_hist                 \* history per name: attempts, last error, messages of the stream

connVars == <<started, running, connections, connection_info, connection_retry_counts,
              reconnect_tasks, tasks, ready, stop_pc, stop_rest, handshakes,
              conn_hist>>

VARIABLES
    fingerprint_pair,     \* two earthquake events handed to _generate_event_fingerprint
    fingerprint_keys,     \* their fingerprints; << >> before the computation
    fingerprint_moments   \* history: the wall clock at which each fingerprint was computed

fingerprintVars == <<fingerprint_pair, fingerprint_keys, fingerprint_moments>>

VARIABLES
    filters,              \* MessagePushManager: the four severity filters and the local monitor
    utc_now,              \* the clock read by datetime.now(timezone.utc), in seconds
    filter_call           \* history: the last filter decision, its input and its result

filterVars == <<filters, utc_now, filter_call>>

VARIABLES
    target_sessions,      \* MessagePushManager.target_sessions, in order
    push_tasks,           \* the tasks inside _handle_disaster_event: task -> position, locals
                          \* and the history of its current call
    event_push_records    \* MessagePushManager.event_push_records: the events recorded, in order

pushVars == <<target_sessions, push_tasks, event_push_records>>

VARIABLES
    handler_source,          \* BaseDataHandler.source_id of the handler instance
    handler_now,             \* time.time(), in seconds
    last_heartbeat_check,    \* _last_heartbeat_check[source_id + "_last_check"], Missing if unset
    processed_weather_ids,   \* WeatherAlarmHandler._processed_weather_ids, oldest first
    emitted_alerts,          \* history: the alert ids 1..emitted_alerts have been emitted as Events
    parse_call               \* history: the last _parse_data call and what it returned

handlerVars == <<handler_source, handler_now, last_heartbeat_check, processed_weather_ids,
                 emitted_alerts, parse_call>>

VARIABLES
    service_running,         \* DisasterWarningService.running
    scheduled_tasks,         \* DisasterWarningService.scheduled_tasks: the loop tasks, in order
    service_starts           \* number of calls of DisasterWarningService.start so far (bounded)

loopVars == <<service_running, scheduled_tasks, service_starts>>

VARIABLES
    intensity_args,          \* the arguments of calculate_estimated_intensity, two distances
    intensity_estimates      \* what it returned for the two distances, << >> before the calls

calcVars == <<intensity_args, intensity_estimates>>

VARIABLES
    disconnect_pc            \* per name: position of a caller's WebSocketManager.disconnect

disconnectVars == <<disconnect_pc>>

VARIABLES
    accepted_events          \* history: the earthquake events should_push_event returned True for

keyVars == <<accepted_events>>

VARIABLES
    invoked_handlers,        \* history: the source ids whose parse_message has been called
    routed,                  \* number of messages given to the registered handlers (bounded)
    last_dispatch            \* history: the last message, the parse_message calls made for
                             \* it, in order, and the handler whose event was handed on

routeVars == <<invoked_handlers, routed, last_dispatch>>

VARIABLES
    last_eew                 \* history: the last JMA EEW message parsed, the event built from
                             \* it, and the report numbers of its provider handled before

eewVars == <<last_eew>>

vars == <<dedupVars, gateVars, connVars, fingerprintVars, filterVars, pushVars, handlerVars,
          loopVars, calcVars, disconnectVars, keyVars, routeVars, eewVars>>

\* what the actions of one component leave unchanged
dedupOthers == <<gateVars, connVars, fingerprintVars, filterVars, pushVars, handlerVars, loopVars,
    calcVars, disconnectVars, keyVars, routeVars, eewVars>>
gateOthers == <<dedupVars, connVars, fingerprintVars, filterVars, pushVars, handlerVars, loopVars,
    calcVars, disconnectVars, keyVars, routeVars, eewVars>>
connOthers == <<dedupVars, gateVars, fingerprintVars, filterVars, pushVars, handlerVars, loopVars,
    calcVars, disconnectVars, keyVars, routeVars, eewVars>>
fingerprintOthers == <<dedupVars, gateVars, connVars, filterVars, pushVars, handlerVars, loopVars,
    calcVars, disconnectVars, keyVars, routeVars, eewVars>>
filterOthers == <<dedupVars, gateVars, connVars, fingerprintVars, pushVars, handlerVars, loopVars,
    calcVars, disconnectVars, keyVars, routeVars, eewVars>>
pushOthers == <<gateVars, connVars, fingerprintVars, handlerVars, loopVars,
    calcVars, disconnectVars, keyVars, routeVars, eewVars>>
handlerOthers == <<dedupVars, gateVars, connVars, fingerprintVars, filterVars, pushVars,
                   loopVars, calcVars, disconnectVars, keyVars, routeVars, eewVars>>
loopOthers == <<dedupVars, gateVars, connVars, fingerprintVars, filterVars, pushVars,
                handlerVars, calcVars, disconnectVars, keyVars, routeVars, eewVars>>
calcOthers == <<dedupVars, gateVars, connVars, fingerprintVars, filterVars, pushVars,
                handlerVars, loopVars, disconnectVars, keyVars, routeVars, eewVars>>
disconnectOthers == <<dedupVars, gateVars, fingerprintVars, filterVars, pushVars,
                      handlerVars, loopVars, calcVars, keyVars, routeVars, eewVars>>

(***************************************************************************)
(* Bounds of the model.                                                    *)
(***************************************************************************)
MaxDedupCalls == 3
MaxRouted == 3
MaxSerial == 3
MaxReport == 2
TickSeconds == 70
MaxNow == 140
MaxDivisor == 3
MaxGateReport == 6
MaxMessages == 2
MaxHandshakes == 1

(***************************************************************************)
(* EventDeduplicator.__init__ defaults.                                    *)
(***************************************************************************)
time_window_minutes == 1
location_tolerance_km == 20
magnitude_tolerance_tenths == 5

time_window_seconds == time_window_minutes * 60

(***************************************************************************)
(* Python's round(): round half to even, of the rational n / d, d > 0.     *)
(***************************************************************************)
RoundHalfEven(n, d) ==
    LET q == n \div d
        r == n % d
    IN  IF 2 * r < d THEN q
        ELSE IF 2 * r > d THEN q + 1
        ELSE IF q % 2 = 0 THEN q ELSE q + 1

Abs(x) == IF x < 0 THEN 0 - x ELSE x

(***************************************************************************)
(* Events.  An event is the DisasterEvent handed to the deduplicator; for  *)
(* an earthquake the fields are those of EarthquakeData that the           *)
(* deduplicator reads.  source is the DataSource value.  has_shock_time is *)
(* FALSE when shock_time is None.  issue_type is raw_data["issue"]["type"] *)
(* ("" when absent).  info_type labels: "auto_cn" and "formal_cn" stand    *)
(* for labels containing the CENC words for automatic and formal           *)
(* determination.  magnitude, intensity and scale are tenths of a unit and *)
(* Missing when the field is None.  time_aware tells that shock_time is   *)
(* an aware datetime, then given in UTC seconds.  For a tsunami event     *)
(* shock_time is TsunamiData.issue_time, for a weather alarm it is         *)
(* effective_time or issue_time.  estimated_intensity is what              *)
(* IntensityCalculator.calculate_estimated_intensity returns for the event *)
(* at the configured place, weather_filtered what WeatherFilter            *)
(* .should_filter returns for the alarm's headline.                        *)
(***************************************************************************)
Missing == -1000

BaseEvent ==
    [ is_earthquake  |-> TRUE,
      source         |-> "fan_studio_cea",
      event_id       |-> "",
      latitude       |-> 3000,
      longitude      |-> 10300,
      magnitude      |-> 50,
      has_shock_time |-> TRUE,
      shock_time     |-> 0,
      updates        |-> 1,
      is_final       |-> FALSE,
      info_type      |-> "",
      issue_type     |-> "",
      intensity      |-> Missing,
      scale          |-> Missing,
      time_aware     |-> FALSE,
      estimated_intensity |-> 0,
      weather_filtered    |-> FALSE ]

\* EEW reports of the CEA feed: report number and final flag vary.
EewEvents ==
    { [BaseEvent EXCEPT !.shock_time = t, !.updates = u, !.is_final = f] :
        t \in {0}, u \in 1..MaxReport, f \in BOOLEAN }

\* CENC determinations: the info_type label varies.
CencEvents ==
    { [BaseEvent EXCEPT !.source = "fan_studio_cenc", !.info_type = l] :
        l \in {"", "auto_cn", "formal_cn"} }

\* USGS determinations: automatic / reviewed, in either letter case.
UsgsEvents ==
    { [BaseEvent EXCEPT !.source = s, !.info_type = l] :
        s \in {"fan_studio_usgs"}, l \in {"automatic", "Reviewed", "reviewed"} }

\* P2P earthquake information: the JMA issue type varies.
P2pInfoEvents ==
    { [BaseEvent EXCEPT !.source = "p2p_earthquake", !.issue_type = i] :
        i \in {"ScalePrompt", "DetailScale", "Foreign"} }

\* Global Quake: fingerprint by event id; the shock time may drift.  The
\* handler builds it from originTimeIso or originTimeMs, as an aware datetime.
GlobalQuakeEvents ==
    { [BaseEvent EXCEPT !.source = "global_quake", !.event_id = "gq1",
                        !.shock_time = t, !.updates = u, !.time_aware = TRUE] :
        t \in {0, 100}, u \in 1..MaxReport }

\* Events with a missing coordinate, a missing time, or another place or size.
OtherEvents ==
    { [BaseEvent EXCEPT !.latitude = 0, !.shock_time = t] : t \in {0, 100} }
    \cup { [BaseEvent EXCEPT !.has_shock_time = FALSE] }
    \cup { [BaseEvent EXCEPT !.latitude = 3500], [BaseEvent EXCEPT !.magnitude = 62] }
    \cup { [BaseEvent EXCEPT !.is_earthquake = FALSE, !.source = "fan_studio_tsunami"] }

Events ==
    EewEvents \cup CencEvents \cup UsgsEvents \cup P2pInfoEvents
        \cup GlobalQuakeEvents \cup OtherEvents

(***************************************************************************)
(* EventDeduplicator._get_source_id                                        *)
(***************************************************************************)
_get_source_id(event) ==
    CASE event.source = "fan_studio_cea"  -> "cea_fanstudio"
      [] event.source = "wolfx_cenc_eew"  -> "cea_wolfx"
      [] event.source = "fan_studio_cwa"  -> "cwa_fanstudio"
      [] event.source = "wolfx_cwa_eew"   -> "cwa_wolfx"
      [] event.source = "fan_studio_jma"  -> "jma_fanstudio"
      [] event.source = "p2p_eew"         -> "jma_p2p"
      [] event.source = "p2p_earthquake"  -> "jma_p2p_info"
      [] event.source = "wolfx_jma_eew"   -> "jma_wolfx"
      [] event.source = "fan_studio_cenc" -> "cenc_fanstudio"
      [] event.source = "fan_studio_usgs" -> "usgs_fanstudio"
      [] event.source = "global_quake"    -> "global_quake"
      [] OTHER                            -> event.source

\* mutant: the minute of a grid fingerprint is that of the computation
_generate_event_fingerprint_by_clock(earthquake, clock) ==
    [ kind |-> "grid", id |-> "",
      lat_grid |-> RoundHalfEven(earthquake.latitude * 111, 100 * location_tolerance_km),
      lon_grid |-> RoundHalfEven(earthquake.longitude * 111, 100 * location_tolerance_km),
      mag_grid |-> RoundHalfEven(earthquake.magnitude, magnitude_tolerance_tenths)
                      * magnitude_tolerance_tenths,
      time_minute |-> clock \div 60 ]

\* mutant: the fingerprint of a grid cell carries the source
_generate_event_fingerprint_per_source(earthquake, clock) ==
    [ kind |-> "grid", id |-> earthquake.source,
      lat_grid |-> RoundHalfEven(earthquake.latitude * 111, 100 * location_tolerance_km),
      lon_grid |-> RoundHalfEven(earthquake.longitude * 111, 100 * location_tolerance_km),
      mag_grid |-> RoundHalfEven(earthquake.magnitude, magnitude_tolerance_tenths)
                      * magnitude_tolerance_tenths,
      time_minute |-> earthquake.shock_time \div 60 ]

(***************************************************************************)
(* EventDeduplicator._generate_event_fingerprint.  The key is returned as  *)
(* a record; the grid fields are the rounded integers whose fixed-point    *)
(* rendering the code prints (the rendering is one-to-one on them).        *)
(***************************************************************************)
_generate_event_fingerprint(earthquake, clock) ==
    IF earthquake.source = "global_quake" /\ earthquake.event_id # ""
    THEN [kind |-> "gq", id |-> earthquake.event_id,
          lat_grid |-> 0, lon_grid |-> 0, mag_grid |-> 0, time_minute |-> 0]
    ELSE IF earthquake.latitude \in {0, Missing} \/ earthquake.longitude \in {0, Missing}
    THEN [kind |-> "unknown_location", id |-> "",
          lat_grid |-> 0, lon_grid |-> 0, mag_grid |-> 0, time_minute |-> 0]
    ELSE [kind |-> "grid", id |-> "",
          lat_grid |-> RoundHalfEven(earthquake.latitude * 111, 100 * location_tolerance_km),
          lon_grid |-> RoundHalfEven(earthquake.longitude * 111, 100 * location_tolerance_km),
          mag_grid |-> RoundHalfEven(earthquake.magnitude, magnitude_tolerance_tenths)
                          * magnitude_tolerance_tenths,
          time_minute |-> IF earthquake.has_shock_time
                          THEN earthquake.shock_time \div 60
                          ELSE clock \div 60]

(***************************************************************************)
(* EventDeduplicator._should_allow_update                                  *)
(***************************************************************************)
\* str.lower() on the info_type labels of the model
Lower(label) ==
    CASE label = "Reviewed"  -> "reviewed"
      [] label = "Automatic" -> "automatic"
      [] OTHER               -> label

\* '"自动" in label' and '"正式" in label'
ContainsAutoCn(label) == label = "auto_cn"
ContainsFormalCn(label) == label = "formal_cn"

jma_types == <<"ScalePrompt", "Destination", "ScaleAndDestination", "DetailScale">>

InJmaTypes(t) == \E i \in 1..Len(jma_types) : jma_types[i] = t
JmaIndex(t) == CHOOSE i \in 1..Len(jma_types) : jma_types[i] = t

\* mutant: a report counts as new only when it is above every processed one
NewReportAboveMax(current_earthquake, existing_event) ==
    \A r \in existing_event.processed_reports : current_earthquake.updates > r

NewReport(current_earthquake, existing_event) ==
    current_earthquake.updates \notin existing_event.processed_reports

BecomesFinal(current_earthquake, existing_event) ==
    current_earthquake.is_final /\ ~existing_event.is_final

UsgsUpgrade(current_earthquake, existing_event) ==
    /\ current_earthquake.source = "fan_studio_usgs"
    /\ Lower(existing_event.info_type) = "automatic"
    /\ Lower(current_earthquake.info_type) = "reviewed"

\* mutant: any change of the JMA issue type counts as an upgrade
JmaChange(current_earthquake, existing_event) ==
    /\ InJmaTypes(current_earthquake.issue_type)
    /\ InJmaTypes(existing_event.issue_type)
    /\ JmaIndex(current_earthquake.issue_type) # JmaIndex(existing_event.issue_type)

JmaUpgrade(current_earthquake, existing_event) ==
    /\ InJmaTypes(current_earthquake.issue_type)
    /\ InJmaTypes(existing_event.issue_type)
    /\ JmaIndex(current_earthquake.issue_type) > JmaIndex(existing_event.issue_type)

GenericUpgrade(current_earthquake, existing_event) ==
    /\ ContainsAutoCn(Lower(existing_event.info_type))
    /\ ContainsFormalCn(Lower(current_earthquake.info_type))

LabelUpgrade(current_earthquake, existing_event) ==
    \/ UsgsUpgrade(current_earthquake, existing_event)
    \/ JmaUpgrade(current_earthquake, existing_event)
    \/ GenericUpgrade(current_earthquake, existing_event)

_should_allow_update(current_earthquake, existing_event) ==
    \/ NewReport(current_earthquake, existing_event)
    \/ BecomesFinal(current_earthquake, existing_event)
    \/ LabelUpgrade(current_earthquake, existing_event)

(***************************************************************************)
(* The record written for a source under a fingerprint, and the update of  *)
(* an existing record when an update is allowed.  The fields source,       *)
(* latitude, longitude and magnitude of the record are written and never   *)
(* read by the deduplicator; they are left out.                            *)
(***************************************************************************)
TimestampAware(earthquake) == earthquake.has_shock_time /\ earthquake.time_aware

NewRecord(earthquake, current_time) ==
    [ timestamp         |-> current_time,
      aware             |-> TimestampAware(earthquake),
      info_type         |-> earthquake.info_type,
      issue_type        |-> earthquake.issue_type,
      processed_reports |-> {earthquake.updates},
      is_final          |-> earthquake.is_final ]

\* mutant: the update forgets the final flag
UpdatedRecordKeepsFinal(earthquake, existing_event, current_time) ==
    [ existing_event EXCEPT
        !.processed_reports = @ \cup {earthquake.updates},
        !.timestamp = current_time,
        !.aware = TimestampAware(earthquake) ]

UpdatedRecord(earthquake, existing_event, current_time) ==
    [ existing_event EXCEPT
        !.processed_reports = @ \cup {earthquake.updates},
        !.timestamp = current_time,
        !.aware = TimestampAware(earthquake),
        !.is_final = @ \/ earthquake.is_final ]

NoRecord ==
    [ timestamp |-> 0, aware |-> FALSE, info_type |-> "", issue_type |-> "",
      processed_reports |-> {}, is_final |-> FALSE ]

\* recent_events with the record of (fp, sid) set to rec
PutRecord(events, fp, sid, rec) ==
    [ f \in DOMAIN events \cup {fp} |->
        IF f = fp
        THEN [ s \in (IF fp \in DOMAIN events THEN DOMAIN events[fp] ELSE {}) \cup {sid} |->
                 IF s = sid THEN rec ELSE events[fp][s] ]
        ELSE events[f] ]

HasFingerprint(events, fp) == fp \in DOMAIN events
HasSource(events, fp, sid) == fp \in DOMAIN events /\ sid \in DOMAIN events[fp]

WithinWindow(current_time, existing_event) ==
    Abs(current_time - existing_event.timestamp) <= time_window_seconds

\* the part of an event that the update rule looks at
Signature(event) ==
    [ updates |-> event.updates, is_final |-> event.is_final,
      info_type |-> event.info_type, issue_type |-> event.issue_type ]

HistoryOf(fp, sid) ==
    IF HasSource(accepted_history, fp, sid) THEN accepted_history[fp][sid] ELSE {}

\* no cleanup_old_events call is on record
NoCleanup == [ called |-> FALSE, raised |-> FALSE, cutoff_time |-> 0, before |-> << >> ]

NoCall ==
    [ called |-> FALSE, event |-> BaseEvent,
      fingerprint |-> _generate_event_fingerprint(BaseEvent, 0), source_id |-> "",
      had_fingerprint |-> FALSE, had_source |-> FALSE, in_window |-> FALSE,
      existing |-> NoRecord, seen_before |-> FALSE, result |-> FALSE,
      at |-> 0, updated_at |-> 0 ]

(***************************************************************************)
(* The branch should_push_event takes for an earthquake event:             *)
(*   "new_fingerprint"  no record under the fingerprint (lines 108-131)    *)
(*   "new_source"       a record, but none for this source (lines 85-106)  *)
(*   "expired"          this source's entry is older than the window       *)
(*                      (line 83, then lines 85-106)                       *)
(*   "update"           in the window, update allowed (lines 65-76)        *)
(*   "duplicate"        in the window, update not allowed (lines 77-81)    *)
(***************************************************************************)
BranchAnySource(events, earthquake, fp, source_id, current_time) ==
    IF ~HasFingerprint(events, fp) THEN "new_fingerprint"
    ELSE LET any == CHOOSE s \in DOMAIN events[fp] : TRUE
             existing == events[fp][any]
         IN  IF ~WithinWindow(current_time, existing) THEN "expired"
             ELSE IF _should_allow_update(earthquake, existing) THEN "update"
             ELSE "duplicate"

\* mutant: an entry never expires
BranchNoExpiry(events, earthquake, fp, source_id, current_time) ==
    IF ~HasFingerprint(events, fp) THEN "new_fingerprint"
    ELSE IF ~HasSource(events, fp, source_id) THEN "new_source"
    ELSE IF _should_allow_update(earthquake, events[fp][source_id]) THEN "update"
    ELSE "duplicate"

Branch(events, earthquake, fp, source_id, current_time) ==
    IF ~HasFingerprint(events, fp) THEN "new_fingerprint"
    ELSE IF ~HasSource(events, fp, source_id) THEN "new_source"
    ELSE IF ~WithinWindow(current_time, events[fp][source_id]) THEN "expired"
    ELSE IF _should_allow_update(earthquake, events[fp][source_id]) THEN "update"
    ELSE "duplicate"

(***************************************************************************)
(* EventDeduplicator.should_push_event(event)                              *)
(***************************************************************************)
EventDeduplicator_should_push_event(event) ==
    /\ dedup_calls < MaxDedupCalls
    /\ dedup_calls' = dedup_calls + 1
    /\ last_cleanup' = NoCleanup
    /\ IF ~event.is_earthquake
       THEN /\ UNCHANGED <<recent_events, accepted_history, entry_updated_at>>
            /\ last_call' = [NoCall EXCEPT !.called = TRUE, !.event = event, !.result = TRUE,
                                          !.at = now]
       ELSE
         LET source_id == _get_source_id(event)
             fp == _generate_event_fingerprint(event, now)
             current_time == IF event.has_shock_time THEN event.shock_time ELSE now
             known == HasSource(recent_events, fp, source_id)
             existing == IF known THEN recent_events[fp][source_id] ELSE NoRecord
             branch == Branch(recent_events, event, fp, source_id, current_time)
             call == [ called |-> TRUE, event |-> event, fingerprint |-> fp,
                       source_id |-> source_id,
                       had_fingerprint |-> HasFingerprint(recent_events, fp),
                       had_source |-> known,
                       in_window |-> known /\ WithinWindow(current_time, existing),
                       existing |-> existing,
                       seen_before |-> Signature(event) \in HistoryOf(fp, source_id),
                       result |-> branch # "duplicate",
                       at |-> now,
                       updated_at |-> IF known THEN entry_updated_at[fp][source_id] ELSE 0 ]
         IN  /\ last_call' = call
             /\ CASE branch = "duplicate" ->
                       UNCHANGED <<recent_events, accepted_history, entry_updated_at>>
                  [] branch = "update" ->
                       /\ entry_updated_at' = PutRecord(entry_updated_at, fp, source_id, now)
                       /\ recent_events' = PutRecord(recent_events, fp, source_id,
                                              UpdatedRecord(event, existing, current_time))
                       /\ accepted_history' = PutRecord(accepted_history, fp, source_id,
                                              HistoryOf(fp, source_id) \cup {Signature(event)})
                  [] OTHER ->
                       /\ entry_updated_at' = PutRecord(entry_updated_at, fp, source_id, now)
                       /\ recent_events' = PutRecord(recent_events, fp, source_id,
                                              NewRecord(event, current_time))
                       /\ accepted_history' = PutRecord(accepted_history, fp, source_id,
                                              {Signature(event)})

\* should_push_event called on the deduplicator alone
should_push_event(event) ==
    /\ EventDeduplicator_should_push_event(event)
    /\ UNCHANGED <<now, dedupOthers>>

(***************************************************************************)
(* EventDeduplicator.cleanup_old_events                                    *)
(***************************************************************************)
\* event_info["timestamp"] >= cutoff_time: cutoff_time is naive, and Python
\* raises TypeError when an aware datetime is compared with it
Expired(event_info, cutoff_time) == event_info.timestamp < cutoff_time

\* the loop of lines 272-281 reaches the comparison of an aware timestamp:
\* the records of a fingerprint are compared in turn until one is not
\* expired.  (Which comes first only matters under a fingerprint holding
\* aware and naive records; a Global Quake id fingerprint holds one source.)
ComparisonRaises(events, cutoff_time) ==
    \E f \in DOMAIN events :
        /\ \E s \in DOMAIN events[f] : events[f][s].aware
        /\ \A s \in DOMAIN events[f] :
              ~events[f][s].aware => Expired(events[f][s], cutoff_time)

\* lines 271-281
OldFingerprints(events, cutoff_time) ==
    { f \in DOMAIN events : \A s \in DOMAIN events[f] : Expired(events[f][s], cutoff_time) }

cleanup_old_events ==
    LET cutoff_time == now - 2 * time_window_seconds
        raised == ComparisonRaises(recent_events, cutoff_time)
        old_fingerprints ==
            IF raised THEN {} ELSE OldFingerprints(recent_events, cutoff_time)
    IN  /\ last_cleanup' = [ called |-> TRUE, raised |-> raised,
                             cutoff_time |-> cutoff_time, before |-> recent_events ]
        /\ recent_events' = [ f \in DOMAIN recent_events \ old_fingerprints |-> recent_events[f] ]
        /\ accepted_history' = [ f \in DOMAIN accepted_history \ old_fingerprints |->
                                   accepted_history[f] ]
        /\ entry_updated_at' = [ f \in DOMAIN entry_updated_at \ old_fingerprints |->
                                   entry_updated_at[f] ]
        /\ last_call' = NoCall
        /\ UNCHANGED <<now, dedup_calls, dedupOthers>>

\* time passes
Tick ==
    /\ now + TickSeconds <= MaxNow
    /\ now' = now + TickSeconds
    /\ last_cleanup' = NoCleanup
    /\ UNCHANGED <<recent_events, dedup_calls, accepted_history, last_call,
                   entry_updated_at, dedupOthers>>

\* EventDeduplicator.__init__
DedupStart ==
    /\ recent_events = << >>
    /\ accepted_history = << >>
    /\ now = 0
    /\ dedup_calls = 0
    /\ last_call = NoCall
    /\ entry_updated_at = << >>
    /\ last_cleanup = NoCleanup

DedupNext ==
    \/ \E event \in Events : should_push_event(event)
    \/ cleanup_old_events
    \/ Tick


(***************************************************************************)
(* should_push_event on earthquake events with a zero or missing           *)
(* coordinate, with the events it accepted on record.                      *)
(***************************************************************************)
\* Events of one source at four places (latitude zero, latitude None,
\* longitude zero, both given), of two magnitude steps and two minutes one
\* time window apart; Global Quake events of two ids; one event of a second
\* source.
KeyEvents ==
    { [BaseEvent EXCEPT !.latitude = place[1], !.longitude = place[2],
                        !.magnitude = mag, !.shock_time = t] :
        place \in { <<0, 10300>>, <<Missing, 10300>>, <<3000, 0>>, <<3000, 10300>> },
        mag \in {50, 62},
        t \in {0, 60} }
    \cup { [BaseEvent EXCEPT !.source = "global_quake", !.event_id = gq[1],
                             !.shock_time = gq[2], !.time_aware = TRUE] :
             gq \in { <<"gq1", 0>>, <<"gq1", 60>>, <<"gq2", 0>> } }
    \cup { [BaseEvent EXCEPT !.source = "wolfx_cenc_eew", !.latitude = 0] }

\* lines 145-166: the coordinate, magnitude and minute of an event on the
\* grids of the fingerprint, a coordinate that is None kept as None; lines
\* 137-140 for a Global Quake event with an id
Quantized(coordinate) ==
    IF coordinate = Missing THEN Missing
    ELSE RoundHalfEven(coordinate * 111, 100 * location_tolerance_km)

QuantizedKey(earthquake) ==
    IF earthquake.source = "global_quake" /\ earthquake.event_id # ""
    THEN [kind |-> "gq", id |-> earthquake.event_id,
          lat_grid |-> 0, lon_grid |-> 0, mag_grid |-> 0, time_minute |-> 0]
    ELSE [kind |-> "grid", id |-> "",
          lat_grid |-> Quantized(earthquake.latitude),
          lon_grid |-> Quantized(earthquake.longitude),
          mag_grid |-> RoundHalfEven(earthquake.magnitude, magnitude_tolerance_tenths)
                          * magnitude_tolerance_tenths,
          time_minute |-> earthquake.shock_time \div 60]

\* should_push_event, and the event put on record when it returns True
should_push_event_recorded(event) ==
    /\ EventDeduplicator_should_push_event(event)
    /\ accepted_events' = IF last_call'.result THEN accepted_events \cup {event}
                          ELSE accepted_events
    /\ UNCHANGED <<now, gateVars, connVars, fingerprintVars, filterVars, pushVars,
                   handlerVars, loopVars, calcVars, disconnectVars, routeVars, eewVars>>

KeyIdle == accepted_events = {}

KeyNext ==
    \/ \E event \in KeyEvents : should_push_event_recorded(event)
    \/ cleanup_old_events
    \/ Tick

(***************************************************************************)
(* _generate_event_fingerprint applied to a pair of earthquake events.     *)
(***************************************************************************)
\* Earthquake events inside and around the border of a grid cell (0.05 and
\* 0.09 degrees against 0.10 degrees), of the magnitude steps (5.2 and 5.3)
\* and of the minute (59 s and 60 s), with a zero coordinate, and of Global
\* Quake with and without an event id.
FingerprintEvents ==
    { [BaseEvent EXCEPT !.source = src[1], !.event_id = src[2], !.latitude = lat,
                        !.longitude = lon, !.magnitude = mag, !.shock_time = t] :
        src \in { <<"fan_studio_cea", "">>, <<"fan_studio_jma", "">>,
                  <<"global_quake", "gq1">>, <<"global_quake", "">> },
        lat \in {0, 5, 9, 10, 3000},
        lon \in {0, 10300},
        mag \in {50, 52, 53},
        t \in {0, 59, 60} }

FingerprintStart ==
    /\ fingerprint_pair \in FingerprintEvents \X FingerprintEvents
    /\ fingerprint_keys = << >>
    /\ fingerprint_moments = << >>

\* the fingerprints of the two events, computed at the same moment
generate_fingerprints ==
    /\ fingerprint_keys = << >>
    /\ fingerprint_keys' = << _generate_event_fingerprint(fingerprint_pair[1], now),
                              _generate_event_fingerprint(fingerprint_pair[2], now) >>
    /\ fingerprint_moments' = <<now, now>>
    /\ UNCHANGED <<fingerprint_pair, fingerprintOthers>>

\* the same events, and those of them whose shock_time is None
FingerprintAgainEvents ==
    FingerprintEvents \cup { [e EXCEPT !.has_shock_time = FALSE] : e \in FingerprintEvents }

\* one event, whose fingerprint is computed twice
FingerprintAgainStart ==
    /\ fingerprint_pair \in { <<e, e>> : e \in FingerprintAgainEvents }
    /\ fingerprint_keys = << >>
    /\ fingerprint_moments = << >>

\* the fingerprint of the next event of the pair, computed now
generate_fingerprint ==
    /\ Len(fingerprint_keys) < 2
    /\ fingerprint_keys' =
          Append(fingerprint_keys,
                 _generate_event_fingerprint(fingerprint_pair[Len(fingerprint_keys) + 1], now))
    /\ fingerprint_moments' = Append(fingerprint_moments, now)
    /\ UNCHANGED <<fingerprint_pair, fingerprintOthers>>

FingerprintAgainNext == generate_fingerprint \/ Tick

FingerprintIdle ==
    /\ fingerprint_pair = <<BaseEvent, BaseEvent>>
    /\ fingerprint_keys = << >>
    /\ fingerprint_moments = << >>

FingerprintNext == generate_fingerprints

(***************************************************************************)
(* ReportCountController (src/core/filters/report_controller.py)           *)
(***************************************************************************)
\* ReportCountController._get_source_id: unmapped sources give ""
ReportController_get_source_id(event) ==
    CASE event.source = "fan_studio_cea"  -> "cea_fanstudio"
      [] event.source = "wolfx_cenc_eew"  -> "cea_wolfx"
      [] event.source = "fan_studio_cwa"  -> "cwa_fanstudio"
      [] event.source = "wolfx_cwa_eew"   -> "cwa_wolfx"
      [] event.source = "fan_studio_jma"  -> "jma_fanstudio"
      [] event.source = "p2p_eew"         -> "jma_p2p"
      [] event.source = "wolfx_jma_eew"   -> "jma_wolfx"
      [] event.source = "global_quake"    -> "global_quake"
      [] OTHER                            -> ""

\* mutant: the sources without a report-control id are gated as well
get_sources_with_unmapped ==
    { "cea_fanstudio", "cea_wolfx", "cwa_fanstudio", "cwa_wolfx",
      "jma_fanstudio", "jma_p2p", "jma_wolfx", "global_quake", "" }

\* get_sources_needing_report_control: the ids configured with supports_report_count
get_sources_needing_report_control ==
    { "cea_fanstudio", "cea_wolfx", "cwa_fanstudio", "cwa_wolfx",
      "jma_fanstudio", "jma_p2p", "jma_wolfx", "global_quake" }

\* the substring tests '"jma" in source_id', '"global_quake" in source_id',
\* '"cea" in source_id or "cwa" in source_id' on the ids above
ContainsJma(source_id) == source_id \in {"jma_fanstudio", "jma_p2p", "jma_wolfx"}
ContainsGlobalQuake(source_id) == source_id = "global_quake"
ContainsCeaOrCwa(source_id) ==
    source_id \in {"cea_fanstudio", "cea_wolfx", "cwa_fanstudio", "cwa_wolfx"}

\* mutant: every source gets the default (CEA/CWA) divisor
push_every_n_default(config, source_id) == config.cea_cwa_report_n

\* lines 47-57: the divisor of the source's agency class
push_every_n(config, source_id) ==
    IF ContainsJma(source_id) THEN config.jma_report_n
    ELSE IF ContainsGlobalQuake(source_id) THEN config.gq_report_n
    ELSE config.cea_cwa_report_n

\* lines 49-57: only the JMA class keeps supports_final
supports_final(source_id) ==
    IF ContainsJma(source_id) THEN TRUE
    ELSE IF ContainsGlobalQuake(source_id) THEN FALSE
    ELSE IF ContainsCeaOrCwa(source_id) THEN FALSE
    ELSE TRUE

\* mutant: the ignore-non-final test is made before the first-report test
ReportRuleIgnoreFirst(config, is_final, current_report, n) ==
    IF is_final /\ config.final_report_always_push THEN TRUE
    ELSE IF config.ignore_non_final_reports /\ ~is_final THEN FALSE
    ELSE IF current_report = 1 THEN TRUE
    ELSE LET m == IF n <= 0 THEN 1 ELSE n IN current_report % m = 0

\* lines 61-91: the ordered rule, on the effective final flag and divisor
ReportRule(config, is_final, current_report, n) ==
    IF is_final /\ config.final_report_always_push THEN TRUE
    ELSE IF current_report = 1 THEN TRUE
    ELSE IF config.ignore_non_final_reports /\ ~is_final THEN FALSE
    ELSE LET m == IF n <= 0 THEN 1 ELSE n IN current_report % m = 0

\* ReportCountController.should_push_report, as a function of config and event
should_push_report_result(config, event) ==
    IF ~event.is_earthquake THEN TRUE
    ELSE LET source_id == ReportController_get_source_id(event)
         IN  IF source_id \notin get_sources_needing_report_control THEN TRUE
             ELSE ReportRule(config,
                             IF supports_final(source_id) THEN event.is_final ELSE FALSE,
                             event.updates,
                             push_every_n(config, source_id))

\* EarthquakeData of sources outside report control, with any report number
\* and final flag the dataclass can hold (their handlers leave the defaults),
\* and a tsunami event, which is no EarthquakeData
UncontrolledEvents ==
    { [BaseEvent EXCEPT !.source = src, !.updates = u, !.is_final = f] :
        src \in {"fan_studio_cenc", "fan_studio_usgs"},
        u \in 1..MaxGateReport, f \in BOOLEAN }
    \cup { [BaseEvent EXCEPT !.is_earthquake = FALSE, !.source = "p2p_tsunami"] }

\* The events offered to the gate, as the handlers build them: the CEA, CWA
\* and FAN Studio JMA handlers copy the report number and the final flag
\* from the message; the P2P EEW handler sets the final flag and leaves
\* updates at its default 1; the Global Quake handler copies the revision
\* into updates and sets no final flag; CENC and Wolfx JMA information are
\* outside report control; a weather event is no earthquake.
GateEvents ==
    { [BaseEvent EXCEPT !.source = src, !.updates = u, !.is_final = f] :
        src \in {"fan_studio_cea", "wolfx_cwa_eew", "fan_studio_jma"},
        u \in 1..MaxGateReport, f \in BOOLEAN }
    \cup { [BaseEvent EXCEPT !.source = "p2p_eew", !.is_final = f] : f \in BOOLEAN }
    \cup { [BaseEvent EXCEPT !.source = "global_quake", !.event_id = "gq1", !.updates = u] :
              u \in 1..MaxGateReport }
    \cup { [BaseEvent EXCEPT !.source = src] : src \in {"fan_studio_cenc", "wolfx_jma_eq"} }
    \cup { [BaseEvent EXCEPT !.is_earthquake = FALSE, !.source = "fan_studio_weather"] }
    \cup UncontrolledEvents

ReportConfigs ==
    [ cea_cwa_report_n : 0..MaxDivisor, jma_report_n : 0..MaxDivisor,
      gq_report_n : 0..MaxDivisor,
      final_report_always_push : BOOLEAN, ignore_non_final_reports : BOOLEAN ]

\* ReportCountController.__init__ defaults
DefaultReportConfig ==
    [ cea_cwa_report_n |-> 1, jma_report_n |-> 3, gq_report_n |-> 5,
      final_report_always_push |-> TRUE, ignore_non_final_reports |-> FALSE ]

NoReport == [ called |-> FALSE, event |-> BaseEvent, result |-> FALSE ]

\* ReportCountController.should_push_report(event)
should_push_report(event) ==
    /\ last_report' = [ called |-> TRUE, event |-> event,
                        result |-> should_push_report_result(report_config, event) ]
    /\ UNCHANGED <<report_config, event_report_counts, gateOthers>>

\* ReportCountController.__init__ with the given configuration
GateStart(config) ==
    /\ report_config = config
    /\ event_report_counts = << >>
    /\ last_report = NoReport

GateNext == \E event \in GateEvents : should_push_report(event)

(***************************************************************************)
(* MessagePushManager.should_push_event (src/core/message_manager.py) and  *)
(* the severity filters (src/core/filters/intensity_filter.py,             *)
(* src/core/filters/local_intensity.py).                                   *)
(***************************************************************************)
MaxFilterReport == 2
HourSeconds == 3600

\* MessagePushManager._get_source_id
MessagePushManager_get_source_id(event) ==
    CASE event.source = "fan_studio_cea"     -> "cea_fanstudio"
      [] event.source = "wolfx_cenc_eew"     -> "cea_wolfx"
      [] event.source = "fan_studio_cwa"     -> "cwa_fanstudio"
      [] event.source = "wolfx_cwa_eew"      -> "cwa_wolfx"
      [] event.source = "fan_studio_jma"     -> "jma_fanstudio"
      [] event.source = "p2p_eew"            -> "jma_p2p"
      [] event.source = "wolfx_jma_eew"      -> "jma_wolfx"
      [] event.source = "fan_studio_cenc"    -> "cenc_fanstudio"
      [] event.source = "wolfx_cenc_eq"      -> "cenc_wolfx"
      [] event.source = "p2p_earthquake"     -> "jma_p2p_info"
      [] event.source = "wolfx_jma_eq"       -> "jma_wolfx_info"
      [] event.source = "fan_studio_usgs"    -> "usgs_fanstudio"
      [] event.source = "global_quake"       -> "global_quake"
      [] event.source = "fan_studio_weather" -> "china_weather_fanstudio"
      [] event.source = "fan_studio_tsunami" -> "china_tsunami_fanstudio"
      [] event.source = "p2p_tsunami"        -> "jma_tsunami_p2p"
      [] OTHER                               -> event.source

\* the source ids with "jma", "p2p" and "global_quake" in them
HasJma(source_id) ==
    source_id \in {"jma_fanstudio", "jma_p2p", "jma_wolfx", "jma_p2p_info",
                   "jma_wolfx_info", "jma_tsunami_p2p", "wolfx_jma_eew", "wolfx_jma_eq"}
HasP2p(source_id) ==
    source_id \in {"jma_p2p", "jma_p2p_info", "jma_tsunami_p2p",
                   "p2p_eew", "p2p_earthquake", "p2p_tsunami"}
HasGlobalQuake(source_id) == source_id = "global_quake"

\* mutant: every naive time is read as UTC+8
UtcOffsetHoursCst(source_id) == 8

\* _get_event_time: the UTC offset given to a naive time, by source id
UtcOffsetHours(source_id) ==
    IF \/ HasJma(source_id) \/ HasP2p(source_id)
       \/ source_id = "wolfx_jma_eew" \/ source_id = "wolfx_jma_eq"
    THEN 9
    ELSE IF HasGlobalQuake(source_id) THEN 0
    ELSE 8

NoTime == [ some |-> FALSE, utc |-> 0 ]

\* MessagePushManager._get_event_time: the aware time, as UTC seconds.
\* DisasterEvent.source_id is left "" by every handler, so the source id is
\* the one of _get_source_id.
_get_event_time(event) ==
    IF ~event.has_shock_time THEN NoTime
    ELSE IF event.time_aware THEN [ some |-> TRUE, utc |-> event.shock_time ]
    ELSE [ some |-> TRUE,
           utc |-> event.shock_time
                     - UtcOffsetHours(MessagePushManager_get_source_id(event)) * HourSeconds ]

\* should_push_event lines 162-171: time_diff > 1, in hours
TooOld(clock, event_time_aware) ==
    event_time_aware.some /\ clock - event_time_aware.utc > HourSeconds

\* mutant: a missing intensity passes the intensity branch
IntensityFilterMissingPasses(filter, earthquake) ==
    /\ filter.enabled
    /\ ~(\/ earthquake.magnitude # Missing /\ earthquake.magnitude >= filter.min_magnitude
         \/ earthquake.intensity = Missing
         \/ earthquake.intensity >= filter.min_intensity)

\* IntensityFilter.should_filter
IntensityFilter_should_filter(filter, earthquake) ==
    IF ~filter.enabled THEN FALSE
    ELSE LET magnitude_pass == /\ earthquake.magnitude # Missing
                               /\ earthquake.magnitude >= filter.min_magnitude
             intensity_pass == /\ earthquake.intensity # Missing
                               /\ earthquake.intensity >= filter.min_intensity
         IN  ~(magnitude_pass \/ intensity_pass)

\* mutant: the magnitude -1.0 is compared like any other
ScaleFilterSentinelCompared(filter, earthquake) ==
    IF ~filter.enabled THEN FALSE
    ELSE LET magnitude_pass == /\ earthquake.magnitude # Missing
                               /\ earthquake.magnitude >= filter.min_magnitude
             scale_pass == /\ earthquake.scale # Missing
                           /\ earthquake.scale >= filter.min_scale
         IN  ~(magnitude_pass \/ scale_pass)

\* ScaleFilter.should_filter
ScaleFilter_should_filter(filter, earthquake) ==
    IF ~filter.enabled THEN FALSE
    ELSE LET magnitude_pass == /\ earthquake.magnitude # Missing
                               /\ earthquake.magnitude # -10
                               /\ earthquake.magnitude >= filter.min_magnitude
             scale_pass == /\ earthquake.scale # Missing
                           /\ earthquake.scale >= filter.min_scale
         IN  ~(magnitude_pass \/ scale_pass)

\* USGSFilter.should_filter
USGSFilter_should_filter(filter, earthquake) ==
    IF ~filter.enabled THEN FALSE
    ELSE earthquake.magnitude # Missing /\ earthquake.magnitude < filter.min_magnitude

\* GlobalQuakeFilter.should_filter (the intensity the handler sets is a float)
GlobalQuakeFilter_should_filter(filter, earthquake) ==
    IF ~filter.enabled THEN FALSE
    ELSE LET magnitude_pass == /\ earthquake.magnitude # Missing
                               /\ earthquake.magnitude >= filter.min_magnitude
             intensity_pass == /\ earthquake.intensity # Missing
                               /\ earthquake.intensity >= filter.min_intensity
         IN  ~(magnitude_pass \/ intensity_pass)

\* data_source_config.get_intensity_based_sources / get_scale_based_sources
get_intensity_based_sources ==
    {"cea_fanstudio", "cea_wolfx", "global_quake", "cenc_fanstudio", "cenc_wolfx"}
get_scale_based_sources ==
    {"cwa_fanstudio", "cwa_wolfx", "jma_fanstudio", "jma_p2p", "jma_wolfx",
     "jma_p2p_info", "jma_wolfx_info"}

\* mutant: the threshold is applied in both modes
check_event_always_strict(monitor, earthquake) ==
    IF ~monitor.enabled THEN TRUE
    ELSE IF earthquake.latitude = Missing \/ earthquake.longitude = Missing
    THEN ~monitor.strict_mode
    ELSE ~(earthquake.estimated_intensity < monitor.threshold)

\* LocalIntensityFilter.check_event: is_allowed
check_event(monitor, earthquake) ==
    IF ~monitor.enabled THEN TRUE
    ELSE IF earthquake.latitude = Missing \/ earthquake.longitude = Missing
    THEN ~monitor.strict_mode
    ELSE ~(monitor.strict_mode /\ earthquake.estimated_intensity < monitor.threshold)

\* LocalIntensityFilter.inject_local_estimation: None when disabled, else
\* the result, whose estimate is written to earthquake.raw_data
inject_local_estimation(monitor, earthquake) ==
    [ returned   |-> monitor.enabled,
      is_allowed |-> check_event(monitor, earthquake) ]

\* the source-specific severity filter of should_push_event lines 186-206
SeverityFiltered(config, earthquake, source_id) ==
    IF source_id = "global_quake"
    THEN GlobalQuakeFilter_should_filter(config.global_quake_filter, earthquake)
    ELSE IF source_id \in get_intensity_based_sources
    THEN IntensityFilter_should_filter(config.intensity_filter, earthquake)
    ELSE IF source_id \in get_scale_based_sources
    THEN ScaleFilter_should_filter(config.scale_filter, earthquake)
    ELSE IF source_id = "usgs_fanstudio"
    THEN USGSFilter_should_filter(config.usgs_filter, earthquake)
    ELSE FALSE

\* where should_push_event returns: "stale", "weather", "severity", "report",
\* "local" for the five rejections, "pass" for True
should_push_event_outcome(config, reports, clock, event) ==
    IF TooOld(clock, _get_event_time(event)) THEN "stale"
    ELSE IF ~event.is_earthquake
    THEN IF event.source = "fan_studio_weather" /\ event.weather_filtered
         THEN "weather" ELSE "pass"
    ELSE IF SeverityFiltered(config, event, MessagePushManager_get_source_id(event))
    THEN "severity"
    ELSE IF ~should_push_report_result(reports, event) THEN "report"
    ELSE LET result == inject_local_estimation(config.local_monitor, event)
         IN  IF result.returned /\ ~result.is_allowed THEN "local" ELSE "pass"

\* whether should_push_event reaches inject_local_estimation with the
\* monitor enabled, so that the estimate is attached to the event
EstimateAttached(config, reports, clock, event) ==
    /\ config.local_monitor.enabled
    /\ should_push_event_outcome(config, reports, clock, event) \in {"local", "pass"}
    /\ event.is_earthquake

\* MessagePushManager.__init__ defaults of the filters
DefaultFilters ==
    [ intensity_filter    |-> [enabled |-> TRUE, min_magnitude |-> 20, min_intensity |-> 40],
      scale_filter        |-> [enabled |-> TRUE, min_magnitude |-> 20, min_scale |-> 10],
      usgs_filter         |-> [enabled |-> TRUE, min_magnitude |-> 45],
      global_quake_filter |-> [enabled |-> TRUE, min_magnitude |-> 45, min_intensity |-> 50],
      local_monitor       |-> [enabled |-> FALSE, strict_mode |-> FALSE, threshold |-> 20] ]

\* the configurations of the filters that are checked
FilterConfigs ==
    { [DefaultFilters EXCEPT !.intensity_filter = f, !.local_monitor = m] :
        f \in { [enabled |-> e, min_magnitude |-> t[1], min_intensity |-> t[2]] :
                  e \in BOOLEAN, t \in {<<20, 40>>, <<40, 50>>} },
        m \in { [enabled |-> e, strict_mode |-> st, threshold |-> 20] :
                  e \in BOOLEAN, st \in BOOLEAN } }

\* the clock values and the event times: for each of the three offsets the
\* time exactly one hour before the first clock value, one second earlier,
\* and a time after it
UtcNows == {10 * HourSeconds, 11 * HourSeconds}
EventTimes ==
    { (9 + off) * HourSeconds + d : off \in {0, 8, 9}, d \in {-1, 0} }
        \cup {20 * HourSeconds}

\* earthquake events of one source of every filter family, with magnitude,
\* intensity and scale present or not; Global Quake also with an aware time
FilterEarthquakes ==
    { [BaseEvent EXCEPT !.source = src, !.event_id = IF src = "global_quake" THEN "gq1" ELSE "",
                        !.updates = u, !.magnitude = m, !.intensity = i, !.scale = sc,
                        !.estimated_intensity = est] :
        src \in {"fan_studio_cea", "fan_studio_cenc", "fan_studio_jma", "p2p_earthquake",
                 "wolfx_jma_eew", "fan_studio_usgs", "global_quake"},
        u \in 1..MaxFilterReport,
        m \in {Missing, -10, 35, 45}, i \in {Missing, 40, 55}, sc \in {Missing, 10},
        est \in {10, 30} }

TimedEvents(events) ==
    { [e EXCEPT !.shock_time = t] : e \in events, t \in EventTimes }
    \cup { [e EXCEPT !.has_shock_time = FALSE] : e \in events }
    \cup { [e EXCEPT !.shock_time = t, !.time_aware = TRUE] :
             e \in { x \in events : x.source = "global_quake" }, t \in EventTimes }

FilterOthersEvents ==
    { [BaseEvent EXCEPT !.is_earthquake = FALSE, !.source = src, !.weather_filtered = w] :
        src \in {"fan_studio_weather", "fan_studio_tsunami", "p2p_tsunami"},
        w \in BOOLEAN }

\* earthquakes without coordinates, for which check_event computes no
\* estimate and reports 0.0
NoCoordinateEarthquakes ==
    { [BaseEvent EXCEPT !.latitude = Missing, !.longitude = Missing,
                        !.magnitude = 45, !.estimated_intensity = 0] }

FilterEvents ==
    TimedEvents(FilterEarthquakes \cup NoCoordinateEarthquakes \cup FilterOthersEvents)

NoFilterCall ==
    [ called |-> FALSE, function |-> "", event |-> BaseEvent, outcome |-> "",
      result |-> FALSE, attached |-> FALSE ]

\* MessagePushManager.should_push_event(event)
MessagePushManager_should_push_event(event) ==
    LET outcome == should_push_event_outcome(filters, report_config, utc_now, event)
    IN  /\ ~filter_call.called
        /\ filter_call' =
              [ called |-> TRUE, function |-> "should_push_event", event |-> event,
                outcome |-> outcome, result |-> outcome = "pass",
                attached |-> EstimateAttached(filters, report_config, utc_now, event) ]
        /\ UNCHANGED <<filters, utc_now, filterOthers>>

\* IntensityFilter.should_filter(earthquake), of the configured filter
apply_intensity_filter(earthquake) ==
    LET filtered == IntensityFilter_should_filter(filters.intensity_filter, earthquake)
    IN  /\ ~filter_call.called
        /\ filter_call' =
              [ called |-> TRUE, function |-> "IntensityFilter", event |-> earthquake,
                outcome |-> IF filtered THEN "severity" ELSE "pass",
                result |-> filtered, attached |-> FALSE ]
        /\ UNCHANGED <<filters, utc_now, filterOthers>>

\* ScaleFilter.should_filter(earthquake), of the configured filter
apply_scale_filter(earthquake) ==
    LET filtered == ScaleFilter_should_filter(filters.scale_filter, earthquake)
    IN  /\ ~filter_call.called
        /\ filter_call' =
              [ called |-> TRUE, function |-> "ScaleFilter", event |-> earthquake,
                outcome |-> IF filtered THEN "severity" ELSE "pass",
                result |-> filtered, attached |-> FALSE ]
        /\ UNCHANGED <<filters, utc_now, filterOthers>>

\* the scale filter on or off, with a minimum magnitude below and above the
\* magnitude -1.0
ScaleFilterConfigs ==
    { [DefaultFilters EXCEPT !.scale_filter =
          [enabled |-> e, min_magnitude |-> mm, min_scale |-> ms]] :
        e \in BOOLEAN, mm \in {-20, 20}, ms \in {10, 30} }

\* JMA events with the magnitude missing, -1.0, below -1.0 and above, and
\* the scale missing or set
ScaleEarthquakes ==
    { [BaseEvent EXCEPT !.source = "fan_studio_jma", !.magnitude = m, !.scale = sc] :
        m \in {Missing, -15, -10, 15, 35}, sc \in {Missing, 5, 10, 30} }

ScaleFilterNext == \E event \in ScaleEarthquakes : apply_scale_filter(event)

FilterStart(config, clock) ==
    /\ filters = config
    /\ utc_now = clock
    /\ filter_call = NoFilterCall

\* the filters as constructed by default, nothing decided
FilterIdle == FilterStart(DefaultFilters, 10 * HourSeconds)

FilterNext ==
    \/ \E event \in FilterEvents : MessagePushManager_should_push_event(event)
    \/ \E event \in FilterEarthquakes : apply_intensity_filter(event)

(***************************************************************************)
(* MessagePushManager.push_event, called by DisasterWarningService         *)
(* ._handle_disaster_event from the task of a WebSocket connection ("ws")  *)
(* and from the task of the HTTP poller ("http").  Both tasks run on the   *)
(* one asyncio event loop: a task runs from one await to the next, and the *)
(* awaits of push_event are the building of the message and each send.     *)
(* The statistics written by _handle_disaster_event and by _record_push    *)
(* are left out.                                                           *)
(***************************************************************************)
MaxSessions == 2
\* the target sessions that can be configured, named by their rank
Sessions == [ i \in 1..MaxSessions |-> i ]
PushTaskIds == {"ws", "http"}

\* the clock of the push model: the events of shock_time 0 are fresh
PushClock == 60 - 8 * HourSeconds

NoPush ==
    [ pc |-> "idle", event |-> BaseEvent, index |-> 0, push_success_count |-> 0,
      gates |-> << >>, accepted |-> FALSE, outcome |-> "", built |-> "",
      sends |-> << >>, recorded |-> FALSE, result |-> FALSE ]

\* mutant: the event goes on to the sending once the deduplicator accepted it
PassedGatesDedupOnly(accepted, outcome) == accepted

\* push_event lines 304-311: both gates let the event through
PassedGates(accepted, outcome) == accepted /\ outcome = "pass"

\* mutant: a failed send ends the loop over the sessions
NextSessionUnlessFailed(index, outcome) ==
    IF outcome = "failed" THEN Len(target_sessions) + 1 ELSE index + 1

\* push_event lines 326-335: the loop goes on to the next session after a
\* send, whether it raised or not
NextSession(index, outcome) == index + 1

\* push_event line 339
PushResult(push_success_count) == push_success_count > 0

\* DisasterWarningService._handle_disaster_event(event), up to the first
\* await of push_event: the silence period, the deduplicator, then
\* should_push_event
_handle_disaster_event(task, event, silent) ==
    /\ push_tasks[task].pc \in {"idle", "done"}
    /\ UNCHANGED <<now, target_sessions, event_push_records, filterVars, pushOthers>>
    /\ IF silent
       THEN /\ UNCHANGED <<recent_events, dedup_calls, accepted_history, last_call,
                            entry_updated_at, last_cleanup>>
            /\ push_tasks' = [push_tasks EXCEPT ![task] =
                                [NoPush EXCEPT !.pc = "done", !.event = event]]
       ELSE /\ EventDeduplicator_should_push_event(event)
            /\ LET accepted == last_call'.result
                   outcome == IF accepted
                              THEN should_push_event_outcome(filters, report_config,
                                                             utc_now, event)
                              ELSE ""
                   passed == PassedGates(accepted, outcome)
               IN  push_tasks' = [push_tasks EXCEPT ![task] =
                      [NoPush EXCEPT
                         !.pc = IF passed THEN "building" ELSE "done",
                         !.event = event,
                         !.gates = IF accepted THEN <<"dedup", "should_push">>
                                   ELSE <<"dedup">>,
                         !.accepted = accepted,
                         !.outcome = outcome]]

\* push_event lines 313-323: the message is built ("built") or the building
\* raises ("raised"); without target sessions push_event returns False
_build_message_async(task, outcome) ==
    /\ push_tasks[task].pc = "building"
    /\ push_tasks' = [push_tasks EXCEPT ![task] =
          [@ EXCEPT !.built = outcome,
                    !.pc = IF outcome = "built" /\ target_sessions # << >>
                           THEN "sending" ELSE "done",
                    !.index = 1]]
    /\ UNCHANGED <<dedupVars, target_sessions, event_push_records, filterVars, pushOthers>>

\* push_event lines 326-339: the send to the session at index returns
\* ("sent") or raises ("failed"); after the last session the push is recorded
_send_message(task, outcome) ==
    LET call == push_tasks[task]
        count == call.push_success_count + (IF outcome = "sent" THEN 1 ELSE 0)
        next == NextSession(call.index, outcome)
        last == next > Len(target_sessions)
    IN  /\ call.pc = "sending"
        /\ push_tasks' = [push_tasks EXCEPT ![task] =
              [call EXCEPT !.sends = Append(@, <<target_sessions[call.index], outcome>>),
                           !.push_success_count = count,
                           !.index = next,
                           !.pc = IF last THEN "done" ELSE "sending",
                           !.recorded = last,
                           !.result = last /\ PushResult(count)]]
        /\ event_push_records' = IF last THEN Append(event_push_records, call.event)
                                 ELSE event_push_records
        /\ UNCHANGED <<dedupVars, target_sessions, filterVars, pushOthers>>

\* The events handed to push_event: a CEA warning, a CEA
\* warning below the thresholds of the intensity filter, a CEA warning two
\* hours old, a USGS determination as automatic and as reviewed, and a
\* tsunami event.
PushEvents ==
    { BaseEvent,
      [BaseEvent EXCEPT !.magnitude = 15, !.intensity = 20],
           [BaseEvent EXCEPT !.shock_time = 0 - 2 * HourSeconds],
           [BaseEvent EXCEPT !.source = "fan_studio_usgs", !.info_type = "automatic"],
           [BaseEvent EXCEPT !.source = "fan_studio_usgs", !.info_type = "reviewed"],
           [BaseEvent EXCEPT !.is_earthquake = FALSE, !.source = "p2p_tsunami"] }

SessionLists == { SubSeq(Sessions, 1, n) : n \in 0..MaxSessions }

PushStart(sessions) ==
    /\ target_sessions = sessions
    /\ push_tasks = [ t \in PushTaskIds |-> NoPush ]
    /\ event_push_records = << >>

\* no target sessions, nothing pushed
PushIdle == PushStart(<< >>)

PushNext ==
    \/ \E task \in PushTaskIds, event \in PushEvents, silent \in BOOLEAN :
          _handle_disaster_event(task, event, silent)
    \/ \E task \in PushTaskIds, outcome \in {"built", "raised"} :
          _build_message_async(task, outcome)
    \/ \E task \in PushTaskIds, outcome \in {"sent", "failed"} :
          _send_message(task, outcome)

(***************************************************************************)
(* WebSocketManager (src/core/websocket_manager.py) and the start and stop *)
(* of DisasterWarningService (src/core/disaster_service.py).               *)
(*                                                                         *)
(* The asyncio event loop runs one task at a time, from one await to the   *)
(* next, and takes the tasks from its ready queue in order.  A task is     *)
(* appended to the queue when it is created and when the thing it awaits   *)
(* (handshake, inbound frame, timer, close) completes.                     *)
(***************************************************************************)
\* websocket_config defaults read in reconnect()
max_reconnect_retries == 3

\* DisasterWarningService._configure_connections: the endpoints; only the
\* FAN Studio endpoint is configured with a backup_url
Names == {"fan_studio_all", "p2p_main"}
HasBackupUrl(name) == name = "fan_studio_all"
NameOrder == <<"fan_studio_all", "p2p_main">>

TaskKinds == {"init", "sched", "rec"}
TaskIds == TaskKinds \X Names
StopTask == <<"stop", "">>

\* The connection errors of the model: the exception class that selects the
\* except clause of connect, and what _should_reconnect_on_error finds in
\* the lower-cased message: one of its retry phrases, "ssl"/"certificate",
\* "401"/"403".
Errors ==
    { "handshake_mismatch",   \* InvalidHandshake / ProtocolError, e.g. "invalid Connection header"
      "auth_rejected",        \* InvalidHandshake: "server rejected WebSocket connection: HTTP 401"
      "timeout",              \* asyncio.TimeoutError, empty message
      "refused",              \* ConnectionRefusedError: "[Errno 111] Connect call failed (...)"
      "reset",                \* ConnectionResetError: "[Errno 104] Connection reset by peer"
      "ssl_failure",          \* ssl.SSLCertVerificationError: "... certificate verify failed"
      "ssl_eof",              \* ssl.SSLEOFError: "EOF occurred in violation of protocol (_ssl.c)"
      "abrupt_close",         \* ConnectionClosedError: "no close frame received or sent"
      "key_error" }           \* KeyError(name) on a connection_info entry removed meanwhile

HandshakeErrors ==
    { "handshake_mismatch", "auth_rejected", "timeout", "refused", "reset", "ssl_failure",
      "ssl_eof" }

ErrorClass(error) ==
    CASE error \in {"handshake_mismatch", "auth_rejected"} -> "handshake"
      [] error = "timeout" -> "timeout"
      [] error \in {"refused", "reset", "ssl_failure", "ssl_eof"} -> "network"
      [] error = "abrupt_close" -> "closed"
      [] OTHER -> "other"

HasRetryPhrase(error) == error \in {"reset", "ssl_eof"}
HasSslPhrase(error) == error \in {"ssl_failure", "ssl_eof"}
HasAuthPhrase(error) == error = "auth_rejected"

\* mutant: authentication and SSL failures are retried like any other error
_should_reconnect_always(error) == TRUE

\* WebSocketManager._should_reconnect_on_error
_should_reconnect_on_error(error) ==
    IF HasRetryPhrase(error) THEN TRUE
    ELSE IF HasSslPhrase(error) THEN FALSE
    ELSE IF HasAuthPhrase(error) THEN FALSE
    ELSE TRUE

\* The connection_info dict handed to connect: "present" is FALSE for the
\* empty dict, "uri" is "" when the dict has no "uri" key.
ServiceInfo(name) ==
    [ present |-> TRUE, uri |-> "", established |-> FALSE, backup_url |-> HasBackupUrl(name) ]
EmptyInfo ==
    [ present |-> FALSE, uri |-> "", established |-> FALSE, backup_url |-> FALSE ]

\* handlers is history: the number of message handlers of the task's
\* connection that were called and have not returned
NoTask ==
    [ pc |-> "none", uri |-> "", is_retry |-> FALSE, info |-> EmptyInfo, outcome |-> "",
      handlers |-> 0 ]

\* positions at which a task exists and has not finished
Alive(task) == task.pc \notin {"none", "done", "cancelled"}

\* a task whose coroutine has returned
Finished == [NoTask EXCEPT !.pc = "done"]

\* asyncio Task.cancel(): a live task gets CancelledError at its await and ends
Cancelled(task) == IF Alive(task) THEN [NoTask EXCEPT !.pc = "cancelled"] ELSE task

Without(queue, ids) == SelectSeq(queue, LAMBDA x : x \notin ids)
\* mutant: removing one name empties the collection
WithoutAny(queue, name) == << >>

Without1(queue, name) == SelectSeq(queue, LAMBDA x : x # name)
InSeq(queue, x) == \E i \in 1..Len(queue) : queue[i] = x

NoError == [ error |-> "", handled |-> FALSE, running |-> FALSE ]

NoHist ==
    [ target         |-> "none",   \* URL of the attempt in flight or last made
      failed_primary |-> 0,        \* failed attempts against the primary URL
      failed_backup  |-> 0,        \* failed attempts against the backup URL
      clean          |-> TRUE,     \* every attempt so far failed with a retried error
      abandoned      |-> FALSE,    \* reconnect() has given up on the endpoint
      last_error     |-> NoError,  \* the _handle_connection_error call just made
      stream         |-> << >>,    \* outcomes of the messages handled on the open stream
      connected_to   |-> "none",   \* URL of the last successful handshake
      disconnected   |-> FALSE,    \* disconnect(name) has returned
      closed_ok      |-> FALSE,    \* a stream of the endpoint has ended with a close handshake
      since_success  |-> -1 ]      \* attempts failed with a retried error since the last
                                   \* successful handshake; -1 before it and once an
                                   \* error that is not retried has come after it

\* mutant: the switch to the backup URL is made one retry late
ReconnectTargetLate(current_retry, uri, info) ==
    LET has_backup == info.present /\ info.backup_url
        total_max_retries == IF has_backup THEN max_reconnect_retries * 2
                             ELSE max_reconnect_retries
    IN  IF current_retry >= total_max_retries THEN "abandon"
        ELSE IF has_backup /\ current_retry > max_reconnect_retries THEN "backup"
        ELSE uri

\* the body of reconnect() up to its sleep: "abandon", or the URL to try
ReconnectTarget(current_retry, uri, info) ==
    LET has_backup == info.present /\ info.backup_url
        total_max_retries == IF has_backup THEN max_reconnect_retries * 2
                             ELSE max_reconnect_retries
    IN  IF current_retry >= total_max_retries THEN "abandon"
        ELSE IF has_backup /\ current_retry >= max_reconnect_retries THEN "backup"
        ELSE uri

\* mutant: the except clause also tries again itself
AfterErrorHandledTriesAgain(task) == [task EXCEPT !.pc = "sleeping"]

\* connect, lines 137-158: after _handle_connection_error the coroutine
\* returns, and reconnect(), line 307, returns after it
AfterErrorHandled(task) == Finished

(***************************************************************************)
(* WebSocketManager._handle_connection_error(name, uri, headers, error),   *)
(* called by the task id, which ends with it.  conns, tk and rq are the    *)
(* connections, tasks and ready queue as the caller leaves them.           *)
(***************************************************************************)
_handle_connection_error(id, name, uri, error, conns, tk, rq, hist) ==
    LET info == connection_info[name]
        schedule == running /\ _should_reconnect_on_error(error)
        h == [hist EXCEPT !.last_error = [ error |-> error, handled |-> TRUE,
                                           running |-> running ]]
    IN  /\ connections' = Without1(conns, name)
        /\ connection_info' = [connection_info EXCEPT ![name] = EmptyInfo]
        /\ tasks' = [tk EXCEPT ![id] = AfterErrorHandled(tk[id]),
                               ![<<"sched", name>>] =
                                   IF schedule
                                   THEN [ pc |-> "ready", uri |-> uri, is_retry |-> FALSE,
                                          info |-> info, outcome |-> "", handlers |-> 0 ]
                                   ELSE @]
        /\ ready' = IF schedule THEN Append(rq, <<"sched", name>>) ELSE rq
        /\ conn_hist' = [conn_hist EXCEPT ![name] = h]

ConnUnchangedByTask == UNCHANGED <<started, running, stop_pc, stop_rest, connOthers>>

(***************************************************************************)
(* WebSocketManager.connect, from its entry to the await of the handshake. *)
(* Run by an "init" task when it starts and by a "rec" task after its      *)
(* sleep.                                                                  *)
(***************************************************************************)
connect_begin(id) ==
    LET name == id[2]
        t == tasks[id]
    IN  /\ ready # << >> /\ Head(ready) = id
        /\ id[1] \in {"init", "rec"}
        /\ t.pc \in {"new_connect", "woken"}
        /\ connection_info' = [connection_info EXCEPT ![name] =
               [ present     |-> TRUE,
                 uri         |-> IF t.info.uri # "" THEN t.info.uri ELSE t.uri,
                 established |-> t.info.established,
                 backup_url  |-> t.info.backup_url ]]
        /\ connection_retry_counts' = [connection_retry_counts EXCEPT ![name] =
               IF t.is_retry THEN @ + 1 ELSE 0]
        /\ tasks' = [tasks EXCEPT ![id].pc = "handshake"]
        /\ ready' = Tail(ready)
        /\ conn_hist' = [conn_hist EXCEPT ![name].target = t.uri]
        /\ UNCHANGED <<connections, reconnect_tasks, handshakes>>
        /\ ConnUnchangedByTask

\* environment: the handshake awaited by a task succeeds or fails
handshake_result(id, outcome) ==
    /\ tasks[id].pc = "handshake"
    /\ outcome \in {"ok", "failed"}
    /\ outcome = "ok" => handshakes < MaxHandshakes
    /\ tasks' = [tasks EXCEPT ![id].pc = "handshake_done", ![id].outcome = outcome]
    /\ handshakes' = IF outcome = "ok" THEN handshakes + 1 ELSE handshakes
    /\ ready' = Append(ready, id)
    /\ UNCHANGED <<connections, connection_info, connection_retry_counts, reconnect_tasks,
                   conn_hist>>
    /\ ConnUnchangedByTask

\* mutant: a successful handshake leaves the retry count as it is
RetryCountKept(count) == count

\* connect, line 96: a successful handshake resets the retry count
RetryCountOnSuccess(count) == 0

\* history: an attempt has failed with the given error
AttemptFailed(hist, error) ==
    IF ~hist.clean
    THEN IF hist.since_success < 0 THEN hist
         ELSE IF _should_reconnect_on_error(error)
         THEN [hist EXCEPT !.since_success = @ + 1]
         ELSE [hist EXCEPT !.since_success = -1]
    ELSE IF ~_should_reconnect_on_error(error) THEN [hist EXCEPT !.clean = FALSE]
    ELSE IF hist.target = "backup" THEN [hist EXCEPT !.failed_backup = @ + 1]
    ELSE [hist EXCEPT !.failed_primary = @ + 1]

\* connect after the handshake: lines 89-96 on success, an except clause of
\* lines 137-158 with the error raised on failure
connect_handshake_done(id, error) ==
    LET name == id[2]
        t == tasks[id]
    IN  /\ ready # << >> /\ Head(ready) = id
        /\ t.pc = "handshake_done"
        /\ UNCHANGED <<reconnect_tasks, handshakes>>
        /\ ConnUnchangedByTask
        /\ IF t.outcome = "ok"
           THEN LET conns == IF InSeq(connections, name) THEN connections
                             ELSE Append(connections, name)
                IN  IF connection_info[name].present
                    THEN /\ connections' = conns
                         /\ connection_info' = [connection_info EXCEPT
                                                  ![name].established = TRUE]
                         /\ connection_retry_counts' =
                                [connection_retry_counts EXCEPT
                                   ![name] = RetryCountOnSuccess(@)]
                         /\ tasks' = [tasks EXCEPT ![id].pc = "reading"]
                         /\ ready' = Tail(ready)
                         /\ conn_hist' = [conn_hist EXCEPT ![name].clean = FALSE,
                                                           ![name].stream = << >>,
                                                           ![name].connected_to = t.uri,
                                                           ![name].since_success = 0]
                    ELSE \* line 91 raises KeyError, caught by line 155
                         /\ UNCHANGED connection_retry_counts
                         /\ _handle_connection_error(id, name, t.uri, "key_error", conns,
                                tasks, Tail(ready),
                                [conn_hist[name] EXCEPT !.clean = FALSE,
                                                        !.since_success = -1])
           ELSE /\ UNCHANGED connection_retry_counts
                /\ _handle_connection_error(id, name, t.uri, error, connections,
                       tasks, Tail(ready), AttemptFailed(conn_hist[name], error))

\* environment: a frame arrives on the stream a task is reading
message_arrives(id) ==
    /\ tasks[id].pc = "reading"
    /\ Len(conn_hist[id[2]].stream) < MaxMessages
    /\ tasks' = [tasks EXCEPT ![id].pc = "got_message"]
    /\ ready' = Append(ready, id)
    /\ UNCHANGED <<connections, connection_info, connection_retry_counts, reconnect_tasks,
                   handshakes, conn_hist>>
    /\ ConnUnchangedByTask

\* mutant: an exception raised while handling a message leaves the loop
AfterMessageUncaught(outcome) ==
    IF outcome \in {"log_raised", "handler_raised"} THEN "failed" ELSE "reading"

\* what the message loop does once the handling of a message has ended with
\* the given outcome: lines 120-125 catch every Exception
AfterMessage(outcome) == "reading"

Raised == {"log_raised", "handler_raised"}

\* mutant: the handler is started in the background and the loop reads on
CallHandlerInBackground == "reading"

\* connect, lines 111-115: the handler is awaited
CallHandler == "handling"

\* connect, lines 101-111: the message is logged and the handler is called;
\* an exception of _log_message ends the handling of this message at once
connect_message(id, logged) ==
    LET name == id[2]
    IN  /\ ready # << >> /\ Head(ready) = id
        /\ tasks[id].pc = "got_message"
        /\ IF logged
           THEN /\ tasks' = [tasks EXCEPT ![id].pc = CallHandler,
                                           ![id].handlers = @ + 1]
                /\ UNCHANGED conn_hist
           ELSE /\ tasks' = [tasks EXCEPT ![id].pc = AfterMessage("log_raised")]
                /\ conn_hist' = [conn_hist EXCEPT ![name].stream = Append(@, "log_raised")]
        /\ ready' = Tail(ready)
        /\ UNCHANGED <<connections, connection_info, connection_retry_counts,
                       reconnect_tasks, handshakes>>
        /\ ConnUnchangedByTask

\* environment: the awaited handler returns or raises
handler_completes(id, outcome) ==
    /\ tasks[id].pc = "handling"
    /\ outcome \in {"ok", "handler_raised"}
    /\ tasks' = [tasks EXCEPT ![id].pc = "handler_done", ![id].outcome = outcome]
    /\ ready' = Append(ready, id)
    /\ UNCHANGED <<connections, connection_info, connection_retry_counts, reconnect_tasks,
                   handshakes, conn_hist>>
    /\ ConnUnchangedByTask

\* connect, lines 111-125: back from the handler
connect_handler_done(id) ==
    LET name == id[2]
        t == tasks[id]
    IN  /\ ready # << >> /\ Head(ready) = id
        /\ t.pc = "handler_done"
        /\ tasks' = [tasks EXCEPT ![id].pc = AfterMessage(t.outcome),
                                   ![id].handlers = @ - 1]
        /\ conn_hist' = [conn_hist EXCEPT ![name].stream = Append(@, t.outcome)]
        /\ ready' = Tail(ready)
        /\ UNCHANGED <<connections, connection_info, connection_retry_counts,
                       reconnect_tasks, handshakes>>
        /\ ConnUnchangedByTask

\* environment: the stream a task is reading ends, with a close handshake
\* ("clean") or without one ("abrupt_close")
stream_ends(id, how) ==
    /\ tasks[id].pc = "reading"
    /\ how \in {"clean", "abrupt_close"}
    /\ tasks' = [tasks EXCEPT ![id].pc = "got_close", ![id].outcome = how]
    /\ ready' = Append(ready, id)
    /\ UNCHANGED <<connections, connection_info, connection_retry_counts, reconnect_tasks,
                   handshakes, conn_hist>>
    /\ ConnUnchangedByTask

\* mutant: every end of the stream is handled as an error
ClosedWithoutErrorNever(how) == FALSE

\* connect, lines 127-129: ConnectionClosedOK ends connect without an error
ClosedWithoutError(how) == how = "clean"

\* connect, lines 127-135 and 151-153: the end of the message loop
connect_stream_end(id) ==
    LET name == id[2]
        t == tasks[id]
    IN  /\ ready # << >> /\ Head(ready) = id
        /\ t.pc = "got_close"
        /\ UNCHANGED <<connection_retry_counts, reconnect_tasks, handshakes>>
        /\ ConnUnchangedByTask
        /\ IF ClosedWithoutError(t.outcome)
           THEN /\ tasks' = [tasks EXCEPT ![id] = Finished]
                /\ ready' = Tail(ready)
                /\ conn_hist' = [conn_hist EXCEPT ![name].stream = << >>,
                                                  ![name].closed_ok = TRUE]
                /\ UNCHANGED <<connections, connection_info>>
           ELSE _handle_connection_error(id, name, t.uri, "abrupt_close", connections,
                    tasks, Tail(ready),
                    [conn_hist[name] EXCEPT !.stream = << >>,
                                            !.closed_ok = @ \/ t.outcome = "clean"])

\* WebSocketManager._schedule_reconnect: no await, so the task runs through
_schedule_reconnect(name) ==
    LET id == <<"sched", name>>
        t == tasks[id]
        cancelled == IF reconnect_tasks[name] THEN Cancelled(tasks[<<"rec", name>>])
                     ELSE tasks[<<"rec", name>>]
    IN  /\ ready # << >> /\ Head(ready) = id
        /\ t.pc = "ready"
        /\ reconnect_tasks' = [reconnect_tasks EXCEPT ![name] = TRUE]
        /\ tasks' = [tasks EXCEPT ![id] = Finished,
                                  ![<<"rec", name>>] =
                                      \* line 260 cancels the task `cancelled`
                                      [ pc |-> "new_reconnect", uri |-> t.uri,
                                        is_retry |-> TRUE, info |-> t.info, outcome |-> "",
                                        handlers |-> 0 ]]
        /\ ready' = Append(Without1(Tail(ready), <<"rec", name>>), <<"rec", name>>)
        /\ conn_hist' = [conn_hist EXCEPT ![name].last_error = NoError]
        /\ UNCHANGED <<connections, connection_info, connection_retry_counts, handshakes>>
        /\ ConnUnchangedByTask

\* reconnect(), lines 262-304: up to the sleep
reconnect_begin(name) ==
    LET id == <<"rec", name>>
        t == tasks[id]
        target == ReconnectTarget(connection_retry_counts[name], t.uri, t.info)
    IN  /\ ready # << >> /\ Head(ready) = id
        /\ t.pc = "new_reconnect"
        /\ IF target = "abandon"
           THEN /\ tasks' = [tasks EXCEPT ![id] = Finished]
                /\ conn_hist' = [conn_hist EXCEPT ![name].abandoned = TRUE]
           ELSE /\ tasks' = [tasks EXCEPT ![id].pc = "sleeping", ![id].uri = target]
                /\ UNCHANGED conn_hist
        /\ ready' = Tail(ready)
        /\ UNCHANGED <<connections, connection_info, connection_retry_counts,
                       reconnect_tasks, handshakes>>
        /\ ConnUnchangedByTask

\* environment: asyncio.sleep(reconnect_interval) of reconnect() is over
timer_fires(name) ==
    /\ tasks[<<"rec", name>>].pc = "sleeping"
    /\ tasks' = [tasks EXCEPT ![<<"rec", name>>].pc = "woken"]
    /\ ready' = Append(ready, <<"rec", name>>)
    /\ UNCHANGED <<connections, connection_info, connection_retry_counts, reconnect_tasks,
                   handshakes, conn_hist>>
    /\ ConnUnchangedByTask

\* DisasterWarningService.start with WebSocketManager.start and
\* _establish_websocket_connections: one connect task per endpoint
start ==
    /\ ~started
    /\ started' = TRUE
    /\ running' = TRUE
    /\ tasks' = [id \in TaskIds |->
                    IF id[1] = "init"
                    THEN [ pc |-> "new_connect", uri |-> "primary", is_retry |-> FALSE,
                           info |-> ServiceInfo(id[2]), outcome |-> "", handlers |-> 0 ]
                    ELSE tasks[id]]
    /\ ready' = ready \o [i \in 1..Len(NameOrder) |-> <<"init", NameOrder[i]>>]
    /\ UNCHANGED <<connections, connection_info, connection_retry_counts, reconnect_tasks,
                   stop_pc, stop_rest, handshakes, conn_hist,
                   connOthers>>

\* environment: the plugin is terminated and awaits DisasterWarningService.stop
request_stop ==
    /\ started
    /\ stop_pc = "idle"
    /\ stop_pc' = "called"
    /\ ready' = Append(ready, StopTask)
    /\ UNCHANGED <<started, running, connections, connection_info, connection_retry_counts,
                   reconnect_tasks, tasks, stop_rest, handshakes, conn_hist,
                   connOthers>>

\* tasks cancelled by DisasterWarningService.stop (connection_tasks) and by
\* the first loop of WebSocketManager.stop (reconnect_tasks.values())
CancelledByStop ==
    { id \in TaskIds : \/ id[1] = "init"
                       \/ id[1] = "rec" /\ reconnect_tasks[id[2]] }

\* the names in rest, from the first one, that disconnect finds absent from
\* connections: for them only lines 336-338 run
RECURSIVE SkipAbsent(_, _)
SkipAbsent(rest, conns) ==
    IF rest = << >> \/ InSeq(conns, Head(rest)) THEN rest
    ELSE SkipAbsent(Tail(rest), conns)

SkippedNames(rest, conns) ==
    { rest[i] : i \in 1..(Len(rest) - Len(SkipAbsent(rest, conns))) }

\* The loop of WebSocketManager.stop, lines 397-398, from the names still to
\* disconnect up to the next awaited close, or to the end of stop, lines
\* 401-403.  tk and rq are the tasks and ready queue before the loop goes on,
\* popped the names whose reconnect task lines 336-338 have just removed.
StopLoop(rest, conns, info, popped, tk, rq) ==
    LET remaining == SkipAbsent(rest, conns)
        unregistered == popped \cup SkippedNames(rest, conns)
        dropped == { <<"rec", n>> : n \in { m \in unregistered : reconnect_tasks[m] } }
    IN  /\ tasks' = [id \in TaskIds |-> IF id \in dropped THEN Cancelled(tk[id]) ELSE tk[id]]
        /\ ready' = Without(rq, { id \in dropped : Alive(tk[id]) })
        /\ reconnect_tasks' = [n \in Names |-> reconnect_tasks[n] /\ n \notin unregistered]
        /\ conn_hist' = [n \in Names |->
                            IF n \in unregistered
                            THEN [conn_hist[n] EXCEPT !.disconnected = TRUE]
                            ELSE conn_hist[n]]
        /\ IF remaining = << >>
           THEN /\ stop_pc' = "done"
                /\ stop_rest' = << >>
                /\ connections' = << >>
                /\ connection_info' = [n \in Names |-> EmptyInfo]
                /\ connection_retry_counts' = [n \in Names |-> 0]
           ELSE /\ stop_pc' = "closing"
                /\ stop_rest' = remaining
                /\ connections' = conns
                /\ connection_info' = info
                /\ UNCHANGED connection_retry_counts

\* DisasterWarningService.stop, lines 220-236, and WebSocketManager.stop up to
\* its first await
stop_begin ==
    /\ ready # << >> /\ Head(ready) = StopTask
    /\ stop_pc = "called"
    /\ running' = FALSE
    /\ StopLoop(connections, connections, connection_info, {},
                [id \in TaskIds |-> IF id \in CancelledByStop THEN Cancelled(tasks[id])
                                    ELSE tasks[id]],
                Without(Tail(ready), { id \in CancelledByStop : Alive(tasks[id]) }))
    /\ UNCHANGED <<started, handshakes, connOthers>>

\* environment: the close awaited by disconnect, line 328, returns or raises
close_completes ==
    /\ stop_pc = "closing"
    /\ stop_pc' = "closed"
    /\ ready' = Append(ready, StopTask)
    /\ UNCHANGED <<started, running, connections, connection_info, connection_retry_counts,
                   reconnect_tasks, tasks, stop_rest, handshakes, conn_hist,
                   connOthers>>

\* disconnect after its await, lines 332-338, and WebSocketManager.stop on to
\* its next await or to its end
stop_continue ==
    LET name == Head(stop_rest)
    IN  /\ ready # << >> /\ Head(ready) = StopTask
        /\ stop_pc = "closed"
        /\ StopLoop(Tail(stop_rest), Without1(connections, name),
                    [connection_info EXCEPT ![name] = EmptyInfo], {name},
                    tasks, Tail(ready))
        /\ UNCHANGED <<started, running, handshakes, connOthers>>

(***************************************************************************)
(* WebSocketManager.disconnect(name) awaited by a caller other than stop,  *)
(* while the manager runs.  The caller is a task of the event loop: it      *)
(* runs disconnect up to the await of close, and goes on when it is at the  *)
(* head of the ready queue after the close has completed.                   *)
(***************************************************************************)
MaxDisconnectCalls == 1

DisconnectTask(name) == <<"disc", name>>

DisconnectIdle == disconnect_pc = [n \in Names |-> "idle"]

\* disconnect, lines 336-338, and its return
disconnect_returns(name, rq) ==
    LET rec == <<"rec", name>>
    IN  /\ disconnect_pc' = [disconnect_pc EXCEPT ![name] = "returned"]
        /\ reconnect_tasks' = [reconnect_tasks EXCEPT ![name] = FALSE]
        /\ tasks' = [tasks EXCEPT ![rec] = IF reconnect_tasks[name] THEN Cancelled(@) ELSE @]
        /\ ready' = IF reconnect_tasks[name] /\ Alive(tasks[rec]) THEN Without1(rq, rec)
                    ELSE rq
        /\ conn_hist' = [conn_hist EXCEPT ![name].disconnected = TRUE]

\* disconnect, lines 326-328: up to the await of close, or through to the
\* return when the name is not in connections
disconnect(name) ==
    /\ running /\ stop_pc = "idle"
    /\ disconnect_pc[name] = "idle"
    /\ Cardinality({ n \in Names : disconnect_pc[n] # "idle" }) < MaxDisconnectCalls
    /\ IF InSeq(connections, name)
       THEN /\ disconnect_pc' = [disconnect_pc EXCEPT ![name] = "closing"]
            /\ UNCHANGED <<reconnect_tasks, tasks, ready, conn_hist>>
       ELSE disconnect_returns(name, ready)
    /\ UNCHANGED <<started, running, connections, connection_info, connection_retry_counts,
                   stop_pc, stop_rest, handshakes, disconnectOthers>>

\* environment: the close awaited by disconnect is over; a task reading the
\* stream finds it closed, with or without a close handshake
disconnect_close_completes(name, how) ==
    LET readers == { id \in TaskIds : id[2] = name /\ tasks[id].pc = "reading" }
    IN  /\ disconnect_pc[name] = "closing"
        /\ how \in {"clean", "abrupt_close"}
        /\ disconnect_pc' = [disconnect_pc EXCEPT ![name] = "closed"]
        /\ tasks' = [id \in TaskIds |->
                        IF id \in readers
                        THEN [tasks[id] EXCEPT !.pc = "got_close", !.outcome = how]
                        ELSE tasks[id]]
        /\ ready' = ready \o SelectSeq(<< <<"init", name>>, <<"rec", name>> >>,
                                       LAMBDA id : id \in readers)
                          \o <<DisconnectTask(name)>>
        /\ UNCHANGED <<started, running, connections, connection_info,
                       connection_retry_counts, reconnect_tasks, stop_pc, stop_rest,
                       handshakes, conn_hist, disconnectOthers>>

\* disconnect, lines 332-338: after the await
disconnect_continue(name) ==
    /\ ready # << >> /\ Head(ready) = DisconnectTask(name)
    /\ disconnect_pc[name] = "closed"
    /\ connections' = Without1(connections, name)
    /\ connection_info' = [connection_info EXCEPT ![name] = EmptyInfo]
    /\ disconnect_returns(name, Tail(ready))
    /\ UNCHANGED <<started, running, connection_retry_counts, stop_pc, stop_rest,
                   handshakes, disconnectOthers>>

ConnStart ==
    /\ started = FALSE
    /\ running = FALSE
    /\ connections = << >>
    /\ connection_info = [n \in Names |-> EmptyInfo]
    /\ connection_retry_counts = [n \in Names |-> 0]
    /\ reconnect_tasks = [n \in Names |-> FALSE]
    /\ tasks = [id \in TaskIds |-> NoTask]
    /\ ready = << >>
    /\ stop_pc = "idle"
    /\ stop_rest = << >>
    /\ handshakes = 0
    /\ conn_hist = [n \in Names |-> NoHist]

ConnNext ==
    \/ start
    \/ request_stop
    \/ stop_begin
    \/ close_completes
    \/ stop_continue
    \/ \E id \in TaskIds : connect_begin(id)
    \/ \E id \in TaskIds, outcome \in {"ok", "failed"} : handshake_result(id, outcome)
    \/ \E id \in TaskIds, error \in HandshakeErrors : connect_handshake_done(id, error)
    \/ \E id \in TaskIds : message_arrives(id)
    \/ \E id \in TaskIds, logged \in BOOLEAN : connect_message(id, logged)
    \/ \E id \in TaskIds, outcome \in {"ok", "handler_raised"} : handler_completes(id, outcome)
    \/ \E id \in TaskIds : connect_handler_done(id)
    \/ \E id \in TaskIds, how \in {"clean", "abrupt_close"} : stream_ends(id, how)
    \/ \E id \in TaskIds : connect_stream_end(id)
    \/ \E name \in Names : _schedule_reconnect(name)
    \/ \E name \in Names : reconnect_begin(name)
    \/ \E name \in Names : timer_fires(name)

\* the manager with callers of disconnect, and without stop
DisconnectNext ==
    \/ start
    \/ \E id \in TaskIds : connect_begin(id)
    \/ \E id \in TaskIds, outcome \in {"ok", "failed"} : handshake_result(id, outcome)
    \/ \E id \in TaskIds, error \in HandshakeErrors : connect_handshake_done(id, error)
    \/ \E id \in TaskIds : message_arrives(id)
    \/ \E id \in TaskIds, logged \in BOOLEAN : connect_message(id, logged)
    \/ \E id \in TaskIds, outcome \in {"ok", "handler_raised"} : handler_completes(id, outcome)
    \/ \E id \in TaskIds : connect_handler_done(id)
    \/ \E id \in TaskIds, how \in {"clean", "abrupt_close"} : stream_ends(id, how)
    \/ \E id \in TaskIds : connect_stream_end(id)
    \/ \E name \in Names : _schedule_reconnect(name)
    \/ \E name \in Names : reconnect_begin(name)
    \/ \E name \in Names : timer_fires(name)
    \/ \E name \in Names : disconnect(name)
    \/ \E name \in Names, how \in {"clean", "abrupt_close"} :
          disconnect_close_completes(name, how)
    \/ \E name \in Names : disconnect_continue(name)


(***************************************************************************)
(* The handlers that detect heartbeats: WeatherAlarmHandler, TsunamiHandler *)
(* and USGSEarthquakeHandler, one instance at a time.  A message is the     *)
(* extracted msg_data: its id (0 for none), whether latitude and longitude  *)
(* are absent, both 0 or set, and the names of its fields that hold a       *)
(* value.  "warningInfo.title" is the title inside warningInfo; warningInfo  *)
(* is empty when it holds no title.                                         *)
(***************************************************************************)
MaxAlertIds == 11
HandlerTickSeconds == 15
MaxHandlerNow == 30

\* base.py line 77 and weather.py line 27
HeartbeatCheckSeconds == 30
ProcessedWeatherIdsMaxlen == 10

HandlerSources == {"china_weather_fanstudio", "china_tsunami_fanstudio", "usgs_fanstudio"}

PayloadFields(source_id) ==
    IF source_id = "china_weather_fanstudio" THEN {"headline", "title", "description"}
    ELSE IF source_id = "china_tsunami_fanstudio" THEN {"warningInfo.title", "title", "level"}
    ELSE {"magnitude", "placeName"}

Payloads(source_id, ids) ==
    [ id : ids, coordinates : {"absent", "zero", "set"},
      fields : SUBSET PayloadFields(source_id) ]

\* _is_heartbeat_message lines 94-98
critical_fields(source_id) ==
    IF source_id = "usgs_fanstudio" THEN {"id", "magnitude", "placeName"}
    ELSE IF source_id = "china_tsunami_fanstudio" THEN {"warningInfo", "title", "level"}
    ELSE {"headline", "description"}

\* msg_data.get(field) in ["", None, {}]
FieldEmpty(msg_data, field) ==
    IF field = "id" THEN msg_data.id = 0
    ELSE IF field = "warningInfo" THEN "warningInfo.title" \notin msg_data.fields
    ELSE field \notin msg_data.fields

\* _is_heartbeat_message lines 83-114: the two patterns
HeartbeatPattern(source_id, msg_data) ==
    LET required_fields == critical_fields(source_id)
        missing_count == Cardinality({ field \in required_fields : FieldEmpty(msg_data, field) })
    IN  \/ msg_data.coordinates = "zero"
        \/ 2 * missing_count >= Cardinality(required_fields)

\* _is_heartbeat_message lines 75-79: a check less than 30 seconds after the
\* last one returns False at once
CheckSkipped(current_time, last_check) ==
    last_check # Missing /\ current_time - last_check < HeartbeatCheckSeconds

\* _is_heartbeat_message: what it returns, and _last_heartbeat_check after it
_is_heartbeat_message(source_id, msg_data, current_time, last_check) ==
    IF CheckSkipped(current_time, last_check)
    THEN [ returned |-> FALSE, last_check |-> last_check ]
    ELSE [ returned |-> HeartbeatPattern(source_id, msg_data), last_check |-> current_time ]

\* deque(maxlen).append
DequeAppend(queue, item, maxlen) ==
    IF Len(queue) >= maxlen THEN Append(Tail(queue), item) ELSE Append(queue, item)

InDeque(queue, item) == \E i \in 1..Len(queue) : queue[i] = item

\* WeatherAlarmHandler._parse_data lines 51-52
WeatherDuplicate(weather_id, processed) == weather_id # 0 /\ InDeque(processed, weather_id)

\* WeatherAlarmHandler._parse_data after the heartbeat check: "duplicate",
\* "empty" or "event"
WeatherAlarmHandler_parse_data(msg_data, processed) ==
    IF WeatherDuplicate(msg_data.id, processed) THEN "duplicate"
    ELSE IF msg_data.fields \cap {"headline", "title", "description"} = {} THEN "empty"
    ELSE "event"

\* TsunamiHandler._parse_data after the heartbeat check (lines 47-116)
TsunamiHandler_parse_data(msg_data) ==
    IF "warningInfo.title" \notin msg_data.fields THEN "empty" ELSE "event"

\* USGSEarthquakeHandler._parse_data after the heartbeat check (lines 244-313):
\* absent coordinates are read as 0
USGSEarthquakeHandler_parse_data(msg_data) ==
    IF msg_data.id = 0 THEN "empty"
    ELSE IF msg_data.coordinates # "set" THEN "empty"
    ELSE IF msg_data.fields \cap {"placeName", "magnitude"} = {} THEN "empty"
    ELSE "event"

NoParseCall ==
    [ called |-> FALSE, msg_data |-> [id |-> 0, coordinates |-> "absent", fields |-> {}],
      skipped |-> FALSE, seen_before |-> FALSE, in_cache |-> FALSE, outcome |-> "" ]

\* _parse_data of the handler, on one message
_parse_data(msg_data) ==
    LET heartbeat == _is_heartbeat_message(handler_source, msg_data, handler_now,
                                           last_heartbeat_check)
        outcome ==
            IF heartbeat.returned THEN "heartbeat"
            ELSE IF handler_source = "china_weather_fanstudio"
            THEN WeatherAlarmHandler_parse_data(msg_data, processed_weather_ids)
            ELSE IF handler_source = "china_tsunami_fanstudio"
            THEN TsunamiHandler_parse_data(msg_data)
            ELSE USGSEarthquakeHandler_parse_data(msg_data)
    IN  /\ last_heartbeat_check' = heartbeat.last_check
        /\ processed_weather_ids' =
              IF /\ handler_source = "china_weather_fanstudio"
                 /\ outcome = "event" /\ msg_data.id # 0
              THEN DequeAppend(processed_weather_ids, msg_data.id, ProcessedWeatherIdsMaxlen)
              ELSE processed_weather_ids
        /\ emitted_alerts' =
              IF outcome = "event" /\ msg_data.id = emitted_alerts + 1
              THEN emitted_alerts + 1 ELSE emitted_alerts
        /\ parse_call' =
              [ called |-> TRUE, msg_data |-> msg_data,
                skipped |-> CheckSkipped(handler_now, last_heartbeat_check),
                seen_before |-> msg_data.id # 0 /\ msg_data.id <= emitted_alerts,
                in_cache |-> InDeque(processed_weather_ids, msg_data.id),
                outcome |-> outcome ]
        /\ UNCHANGED <<handler_source, handler_now, handlerOthers>>

\* time passes between two messages
handler_tick ==
    /\ handler_now + HandlerTickSeconds <= MaxHandlerNow
    /\ handler_now' = handler_now + HandlerTickSeconds
    /\ UNCHANGED <<handler_source, last_heartbeat_check, processed_weather_ids,
                   emitted_alerts, parse_call, handlerOthers>>

\* the ids a message can carry: none, the first alert, or the next new one
MessageIds == {0, 1} \cup ({emitted_alerts + 1} \cap (1..MaxAlertIds))

HandlerStart(source_id) ==
    /\ handler_source = source_id
    /\ handler_now = 0
    /\ last_heartbeat_check = Missing
    /\ processed_weather_ids = << >>
    /\ emitted_alerts = 0
    /\ parse_call = NoParseCall

HandlerIdle == HandlerStart("china_weather_fanstudio")

HandlerNext ==
    \/ \E msg_data \in Payloads(handler_source, MessageIds) : _parse_data(msg_data)
    \/ handler_tick


(***************************************************************************)
(* WebSocketHandlerRegistry (src/core/handler_registry.py): the four       *)
(* handlers registered with the WebSocket manager, each choosing among the *)
(* data handlers of DisasterWarningService.handlers.  A message is given   *)
(* by the connection it came on and by what the code reads of it:          *)
(*   well_formed  json.loads accepts it                                    *)
(*   code         the P2P message code (0 on other connections)            *)
(*   marks        the content features the FAN Studio handler tests        *)
(*   parses       the data handler that understands this kind of message   *)
(*                returns an event for it                                  *)
(*   handled      "raised" when _handle_disaster_event raises for it       *)
(***************************************************************************)
\* handlers/__init__.py lines 19-40
DATA_HANDLERS ==
    { "cea_fanstudio", "cea_wolfx", "cwa_fanstudio", "cwa_wolfx", "jma_fanstudio",
      "jma_p2p", "jma_wolfx", "cenc_fanstudio", "cenc_wolfx", "jma_p2p_info",
      "jma_wolfx_info", "usgs_fanstudio", "global_quake", "china_weather_fanstudio",
      "china_tsunami_fanstudio", "jma_tsunami_p2p" }

\* register_all, lines 23-28
message_handlers == {"fan_studio", "p2p", "wolfx", "global_quake"}

\* DisasterWarningService._configure_connections with every data source
\* switched on: the connection names
ConfiguredConnections ==
    { "fan_studio_all", "p2p_main", "wolfx_japan_jma_eew", "wolfx_china_cenc_eew",
      "wolfx_taiwan_cwa_eew", "wolfx_japan_jma_earthquake",
      "wolfx_china_cenc_earthquake", "global_quake" }

\* WebSocketManager._find_handler_by_prefix on the configured names
_find_handler_by_prefix(connection_name) ==
    CASE connection_name = "fan_studio_all" -> "fan_studio"
      [] connection_name = "p2p_main"       -> "p2p"
      [] connection_name = "global_quake"   -> "global_quake"
      [] OTHER                              -> "wolfx"

\* the content features tested by fan_studio_handler, lines 116-165
FanMarks ==
    { "epiIntensity", "maxIntensity_createTime", "infoTypeName_determination",
      "headline_signal", "warningInfo_title", "usgs" }

P2PCodes == {551, 552, 554, 555, 556}

\* the connections other than P2P with the features of their messages: up to
\* two features at once on the FAN Studio connection, none elsewhere
ConnectionMarks ==
    { <<"fan_studio_all", m>> : m \in { x \in SUBSET FanMarks : Cardinality(x) <= 2 } }
    \cup { <<c, {}>> : c \in ConfiguredConnections \ {"fan_studio_all", "p2p_main"} }

RouteMessages ==
    { [ connection |-> cm[1], code |-> 0, marks |-> cm[2], well_formed |-> w[1],
        parses |-> w[2], handled |-> h ] :
        cm \in ConnectionMarks,
        w \in { <<TRUE, TRUE>>, <<TRUE, FALSE>>, <<FALSE, FALSE>> },
        h \in {"ok"} }
    \cup
    { [ connection |-> "p2p_main", code |-> k, marks |-> {}, well_formed |-> w[1],
        parses |-> w[2], handled |-> h ] :
        k \in P2PCodes,
        w \in { <<TRUE, TRUE>>, <<TRUE, FALSE>>, <<FALSE, FALSE>> },
        h \in {"ok", "raised"} }

\* JMAEEWP2PHandler.parse_message (japan_eew.py lines 92-119): an event for
\* code 556 only
JMAEEWP2PHandler_parse_message(message) ==
    message.well_formed /\ message.code = 556 /\ message.parses

\* JMAEarthquakeP2PHandler.parse_message (japan_earthquake.py lines 26-49):
\* an event for code 551 only
JMAEarthquakeP2PHandler_parse_message(message) ==
    message.well_formed /\ message.code = 551 /\ message.parses

\* JMATsunamiP2PHandler.parse_message (tsunami.py lines 130-151): an event
\* for code 552 only
JMATsunamiP2PHandler_parse_message(message) ==
    message.well_formed /\ message.code = 552 /\ message.parses

\* parse_message of the other data handlers, given a message of their kind
parse_message(message) == message.well_formed /\ message.parses

\* fan_studio_handler lines 52-60: direct_source_mapping.get(connection_name)
direct_source_mapping(connection_name) ==
    CASE connection_name = "fan_studio_cea"     -> "cea_fanstudio"
      [] connection_name = "fan_studio_cwa"     -> "cwa_fanstudio"
      [] connection_name = "fan_studio_cenc"    -> "cenc_fanstudio"
      [] connection_name = "fan_studio_usgs"    -> "usgs_fanstudio"
      [] connection_name = "fan_studio_jma"     -> "jma_fanstudio"
      [] connection_name = "fan_studio_weather" -> "china_weather_fanstudio"
      [] connection_name = "fan_studio_tsunami" -> "china_tsunami_fanstudio"
      [] OTHER                                  -> ""

\* fan_studio_handler lines 116-185: the data handler chosen by the content
IdentifiedSource(marks) ==
    IF "epiIntensity" \in marks THEN "cea_fanstudio"
    ELSE IF "maxIntensity_createTime" \in marks THEN "cwa_fanstudio"
    ELSE IF "infoTypeName_determination" \in marks THEN "cenc_fanstudio"
    ELSE IF "headline_signal" \in marks THEN "china_weather_fanstudio"
    ELSE IF "warningInfo_title" \in marks THEN "china_tsunami_fanstudio"
    ELSE IF "usgs" \in marks THEN "usgs_fanstudio"
    ELSE "cea_fanstudio"

\* wolfx_handler lines 342-348: source_mapping.get(connection_name)
source_mapping(connection_name) ==
    CASE connection_name = "wolfx_japan_jma_eew"         -> "jma_wolfx"
      [] connection_name = "wolfx_china_cenc_eew"        -> "cea_wolfx"
      [] connection_name = "wolfx_taiwan_cwa_eew"        -> "cwa_wolfx"
      [] connection_name = "wolfx_china_cenc_earthquake" -> "cenc_wolfx"
      [] connection_name = "wolfx_japan_jma_earthquake"  -> "jma_wolfx_info"
      [] OTHER                                           -> ""

NoDispatch ==
    [ called |-> FALSE, message |-> CHOOSE m \in RouteMessages : TRUE,
      parsed_by |-> << >>, event_from |-> "" ]

\* the message loop of connect, lines 107-115, has called the registered
\* handler, which called parse_message of the data handlers parsed_by, in
\* that order, and handed the event of event_from ("" for none) to
\* _handle_disaster_event
Dispatched(message, parsed_by, event_from) ==
    /\ routed < MaxRouted
    /\ routed' = routed + 1
    /\ invoked_handlers' = invoked_handlers \cup { parsed_by[i] : i \in 1..Len(parsed_by) }
    /\ last_dispatch' = [ called |-> TRUE, message |-> message,
                          parsed_by |-> parsed_by, event_from |-> event_from ]
    /\ UNCHANGED <<dedupVars, gateVars, connVars, fingerprintVars, filterVars, pushVars,
                   handlerVars, loopVars, calcVars, disconnectVars, keyVars, eewVars>>

\* fan_studio_handler, lines 33-223
fan_studio_handler(message) ==
    LET target_source == direct_source_mapping(message.connection)
        identified == IdentifiedSource(message.marks)
    IN  /\ _find_handler_by_prefix(message.connection) = "fan_studio"
        /\ IF target_source # "" /\ target_source \in DATA_HANDLERS
           THEN Dispatched(message, <<target_source>>,
                           IF parse_message(message) THEN target_source ELSE "")
           ELSE IF ~message.well_formed
           THEN Dispatched(message, << >>, "")
           ELSE Dispatched(message, <<identified>>,
                           IF parse_message(message) THEN identified ELSE "")

\* p2p_handler, lines 230-322: the EEW handler, then the earthquake
\* information handler
p2p_handler(message) ==
    LET eew == JMAEEWP2PHandler_parse_message(message)
        info == JMAEarthquakeP2PHandler_parse_message(message)
    IN  /\ _find_handler_by_prefix(message.connection) = "p2p"
        /\ IF eew /\ message.handled = "ok"
           THEN Dispatched(message, <<"jma_p2p">>, "jma_p2p")
           ELSE Dispatched(message, <<"jma_p2p", "jma_p2p_info">>,
                           IF info THEN "jma_p2p_info"
                           ELSE IF eew THEN "jma_p2p" ELSE "")

\* wolfx_handler, lines 329-392
wolfx_handler(message) ==
    LET target_source == source_mapping(message.connection)
    IN  /\ _find_handler_by_prefix(message.connection) = "wolfx"
        /\ IF target_source # "" /\ target_source \in DATA_HANDLERS
           THEN Dispatched(message, <<target_source>>,
                           IF parse_message(message) THEN target_source ELSE "")
           ELSE Dispatched(message, << >>, "")

\* global_quake_handler, lines 399-437
global_quake_handler(message) ==
    /\ _find_handler_by_prefix(message.connection) = "global_quake"
    /\ Dispatched(message, <<"global_quake">>,
                  IF parse_message(message) THEN "global_quake" ELSE "")

RouteIdle ==
    /\ invoked_handlers = {}
    /\ routed = 0
    /\ last_dispatch = NoDispatch

RouteNext ==
    \/ \E message \in RouteMessages : fan_studio_handler(message)
    \/ \E message \in RouteMessages : p2p_handler(message)
    \/ \E message \in RouteMessages : wolfx_handler(message)
    \/ \E message \in RouteMessages : global_quake_handler(message)

(***************************************************************************)
(* The JMA EEW handlers (src/core/handlers/japan_eew.py) in front of the   *)
(* deduplicator and the report gate.  A message is a report of one         *)
(* earthquake: provider, the provider's report number (issue.serial of     *)
(* P2P, Serial of Wolfx, updates of FAN Studio) and final flag; place,     *)
(* magnitude and origin time are those of BaseEvent in every report.       *)
(***************************************************************************)
EewProviders == {"p2p_eew", "wolfx_jma_eew", "fan_studio_jma"}

EewMessages ==
    [ provider : EewProviders, report_number : 1..MaxSerial, is_final : BOOLEAN ]

\* models.py line 111: the default of EarthquakeData.updates
updates_default == 1

\* JMAEEWP2PHandler._parse_eew_data, lines 190-207: issue.serial goes to the
\* field serial, updates is not passed
JMAEEWP2PHandler_parse_eew_data(data) ==
    [BaseEvent EXCEPT !.source = "p2p_eew", !.event_id = "eew1",
                      !.updates = updates_default, !.is_final = data.is_final]

\* JMAEEWWolfxHandler._parse_data, lines 253-269: Serial is not read, updates
\* is not passed
JMAEEWWolfxHandler_parse_data(data) ==
    [BaseEvent EXCEPT !.source = "wolfx_jma_eew", !.event_id = "eew1",
                      !.updates = updates_default, !.is_final = data.is_final]

\* JMAEEWFanStudioHandler._parse_data, lines 53-70: updates is the message's
JMAEEWFanStudioHandler_parse_data(msg_data) ==
    [BaseEvent EXCEPT !.source = "fan_studio_jma", !.event_id = "eew1",
                      !.updates = msg_data.report_number, !.is_final = msg_data.is_final]

NoEew ==
    [ called |-> FALSE, message |-> CHOOSE m \in EewMessages : TRUE,
      event |-> BaseEvent, earlier |-> {} ]

\* the event built by a handler goes through push_event: the deduplicator,
\* and when it accepts, the report gate inside should_push_event
eew_pushed(message, event) ==
    /\ EventDeduplicator_should_push_event(event)
    /\ last_report' = IF last_call'.result
                      THEN [ called |-> TRUE, event |-> event,
                             result |-> should_push_report_result(report_config, event) ]
                      ELSE NoReport
    /\ last_eew' = [ called |-> TRUE, message |-> message, event |-> event,
                     earlier |-> IF last_eew.called
                                 THEN last_eew.earlier \cup
                                        { <<last_eew.message.provider,
                                            last_eew.message.report_number>> }
                                 ELSE {} ]
    /\ UNCHANGED <<now, report_config, event_report_counts, connVars, fingerprintVars,
                   filterVars, pushVars, handlerVars, loopVars, calcVars, disconnectVars,
                   keyVars, routeVars>>

p2p_eew_report(data) ==
    /\ data.provider = "p2p_eew"
    /\ eew_pushed(data, JMAEEWP2PHandler_parse_eew_data(data))

wolfx_eew_report(data) ==
    /\ data.provider = "wolfx_jma_eew"
    /\ eew_pushed(data, JMAEEWWolfxHandler_parse_data(data))

fan_studio_eew_report(msg_data) ==
    /\ msg_data.provider = "fan_studio_jma"
    /\ eew_pushed(msg_data, JMAEEWFanStudioHandler_parse_data(msg_data))

EewIdle == last_eew = NoEew

EewNext ==
    \/ \E data \in EewMessages : p2p_eew_report(data)
    \/ \E data \in EewMessages : wolfx_eew_report(data)
    \/ \E msg_data \in EewMessages : fan_studio_eew_report(msg_data)

(***************************************************************************)
(* The loops of DisasterWarningService: fetch_wolfx_data, the poller, and  *)
(* cleanup.  A loop task is at "created" before its first run, at "sleep"  *)
(* in its await of asyncio.sleep, at "fetch" in an await of the poller's   *)
(* body, and has ended at "returned" (the while test failed), "cancelled"  *)
(* (asyncio.CancelledError left the coroutine) or "raised" (another        *)
(* exception left it).  cancelling tells that task.cancel() was called and *)
(* the CancelledError is still to be thrown at the task's await.  History  *)
(* fields: iterations counts the iterations begun, failures those that     *)
(* raised, cleared tells that the running flag was cleared since the task  *)
(* was created, begun_after_clear that an iteration began after that.      *)
(***************************************************************************)
MaxStarts == 2
MaxIterations == 2

LoopNames == <<"fetch_wolfx_data", "cleanup">>

NewLoopTask(name) ==
    [ name |-> name, at |-> "created", cancelling |-> FALSE, iterations |-> 0,
      failures |-> 0, cleared |-> FALSE, begun_after_clear |-> FALSE ]

Ended(task) == task.at \in {"returned", "cancelled", "raised"}

\* mutant: the except clause of the loops catches nothing
CaughtByNothing(raised) == FALSE

\* except Exception: asyncio.CancelledError is a BaseException
CaughtByExceptException(raised) == raised = "Exception"

\* while self.running: the test, and on to the await of asyncio.sleep that
\* begins the next iteration
WhileRunning(task) ==
    IF service_running
    THEN [task EXCEPT !.at = "sleep", !.iterations = @ + 1,
                      !.begun_after_clear = @ \/ task.cleared]
    ELSE [task EXCEPT !.at = "returned"]

\* an exception raised inside the try of an iteration: logged and on to the
\* while test when the except clause catches it
RaisedInIteration(task, raised) ==
    IF CaughtByExceptException(raised)
    THEN WhileRunning([task EXCEPT !.failures = @ + 1])
    ELSE [task EXCEPT !.at = IF raised = "CancelledError" THEN "cancelled" ELSE "raised"]

LoopTaskBecomes(i, task) ==
    /\ task.iterations <= MaxIterations
    /\ scheduled_tasks' = [scheduled_tasks EXCEPT ![i] = task]
    /\ UNCHANGED <<service_running, service_starts, loopOthers>>

\* DisasterWarningService.start: it returns at once when the service runs;
\* it creates the two loop tasks, or fails before it creates them
service_start(outcome) ==
    /\ ~service_running
    /\ service_starts < MaxStarts
    /\ service_starts' = service_starts + 1
    /\ IF outcome = "started"
       THEN /\ service_running' = TRUE
            /\ scheduled_tasks' = scheduled_tasks \o
                  [i \in 1..Len(LoopNames) |-> NewLoopTask(LoopNames[i])]
       ELSE /\ service_running' = FALSE
            /\ UNCHANGED scheduled_tasks
    /\ UNCHANGED loopOthers

\* DisasterWarningService.stop: the flag is cleared and every scheduled task
\* cancelled; cancel() does nothing to a task that has ended
service_stop ==
    /\ service_running
    /\ service_running' = FALSE
    /\ scheduled_tasks' =
          [i \in DOMAIN scheduled_tasks |->
              IF Ended(scheduled_tasks[i]) THEN scheduled_tasks[i]
              ELSE [scheduled_tasks[i] EXCEPT !.cancelling = TRUE, !.cleared = TRUE]]
    /\ UNCHANGED <<service_starts, loopOthers>>

\* the event loop runs a cancelled task: CancelledError is thrown at its
\* await (a task not yet run never enters its coroutine)
loop_task_cancelled(i) ==
    LET task == scheduled_tasks[i]
    IN  /\ ~Ended(task) /\ task.cancelling
        /\ LoopTaskBecomes(i, IF task.at = "created"
                              THEN [task EXCEPT !.at = "cancelled"]
                              ELSE RaisedInIteration(task, "CancelledError"))

\* the first run of a loop task, up to its first await
loop_task_first_run(i) ==
    LET task == scheduled_tasks[i]
    IN  /\ task.at = "created" /\ ~task.cancelling
        /\ LoopTaskBecomes(i, WhileRunning(task))

\* cleanup: asyncio.sleep returns, cleanup_old_records returns or raises
cleanup(i, outcome) ==
    LET task == scheduled_tasks[i]
    IN  /\ task.name = "cleanup" /\ task.at = "sleep" /\ ~task.cancelling
        /\ LoopTaskBecomes(i, IF outcome = "returned" THEN WhileRunning(task)
                              ELSE RaisedInIteration(task, "Exception"))

\* fetch_wolfx_data: asyncio.sleep returns, and the body runs up to an await
\* of a fetch or raises before it
fetch_wolfx_data(i, outcome) ==
    LET task == scheduled_tasks[i]
    IN  /\ task.name = "fetch_wolfx_data" /\ task.at = "sleep" /\ ~task.cancelling
        /\ LoopTaskBecomes(i, IF outcome = "awaits" THEN [task EXCEPT !.at = "fetch"]
                              ELSE RaisedInIteration(task, "Exception"))

\* fetch_wolfx_data: the awaited fetches return and the rest of the body,
\* the handling of the parsed events, returns or raises
fetch_wolfx_data_resumed(i, outcome) ==
    LET task == scheduled_tasks[i]
    IN  /\ task.name = "fetch_wolfx_data" /\ task.at = "fetch" /\ ~task.cancelling
        /\ LoopTaskBecomes(i, IF outcome = "returned" THEN WhileRunning(task)
                              ELSE RaisedInIteration(task, "Exception"))

LoopIdle ==
    /\ service_running = FALSE
    /\ scheduled_tasks = << >>
    /\ service_starts = 0

LoopNext ==
    \/ \E outcome \in {"started", "failed"} : service_start(outcome)
    \/ service_stop
    \/ \E i \in DOMAIN scheduled_tasks : loop_task_cancelled(i)
    \/ \E i \in DOMAIN scheduled_tasks : loop_task_first_run(i)
    \/ \E i \in DOMAIN scheduled_tasks, outcome \in {"returned", "raised"} :
          cleanup(i, outcome)
    \/ \E i \in DOMAIN scheduled_tasks, outcome \in {"awaits", "raised"} :
          fetch_wolfx_data(i, outcome)
    \/ \E i \in DOMAIN scheduled_tasks, outcome \in {"returned", "raised"} :
          fetch_wolfx_data_resumed(i, outcome)


(***************************************************************************)
(* IntensityCalculator.calculate_estimated_intensity.  The magnitude is in *)
(* tenths, the distance and the depth in whole kilometres, the longitude   *)
(* in hundredths of a degree (Missing for None), the hypocentral distance  *)
(* in hundredths of a kilometre, rounded down, and logarithms and          *)
(* intensities in millionths.                                              *)
(***************************************************************************)
IntensityUnit == 1000000

\* the largest r in lo..hi with r * r <= n
RECURSIVE ISqrtBetween(_, _, _)
ISqrtBetween(n, lo, hi) ==
    IF lo >= hi THEN lo
    ELSE LET mid == (lo + hi + 1) \div 2
         IN  IF mid * mid <= n THEN ISqrtBetween(n, mid, hi)
             ELSE ISqrtBetween(n, lo, mid - 1)

\* math.sqrt, rounded down
ISqrt(n) == ISqrtBetween(n, 0, 46340)

RECURSIVE Pow2(_)
Pow2(n) == IF n = 0 THEN 1 ELSE 2 * Pow2(n - 1)

\* ln(1 + 2^-k) for k = 1..20, and ln 2
LnOnePlusPow == <<405465, 223144, 117783, 60625, 30772, 15504, 7782, 3899, 1951, 976,
                  488, 244, 122, 61, 31, 15, 8, 4, 2, 1>>
Ln2 == 693147

\* the n with 2^n <= x / 100 < 2^(n+1), for x >= 100
RECURSIVE Log2Floor(_, _)
Log2Floor(x, n) == IF 100 * Pow2(n + 1) <= x THEN Log2Floor(x, n + 1) ELSE n

\* the sum of the ln(1 + 2^-k) of the factors 1 + 2^-k, k from the given one
\* on, that take y up to 2 without passing it
RECURSIVE LnUpToTwo(_, _, _)
LnUpToTwo(y, k, acc) ==
    IF k > Len(LnOnePlusPow) THEN acc
    ELSE LET t == y + y \div Pow2(k)
         IN  IF t <= 2 * IntensityUnit THEN LnUpToTwo(t, k, acc + LnOnePlusPow[k])
             ELSE LnUpToTwo(y, k + 1, acc)

\* math.log of x hundredths, x >= 100: x / 100 = y * 2^n with 1 <= y < 2, and
\* ln y = ln 2 less the logarithms of the factors that take y up to 2
Ln(x) ==
    LET n == Log2Floor(x, 0)
        y == (x * 10000) \div Pow2(n)
    IN  (n + 1) * Ln2 - LnUpToTwo(y, 1, 0)

Maximum(a, b) == IF a >= b THEN a ELSE b
Minimum(a, b) == IF a <= b THEN a ELSE b

\* hypocentral_distance * hypocentral_distance, in square kilometres
HypocentralSquare(distance_km, depth_km) == distance_km * distance_km + depth_km * depth_km

\* R = max(hypocentral_distance, 5.0)
HypocentralR(distance_km, depth_km) ==
    Maximum(ISqrt(HypocentralSquare(distance_km, depth_km) * 10000), 500)

\* A, B, C and R0 of the western and of the eastern formula; c is C in
\* thousandths, b is B for a magnitude in tenths
AttenuationCoefficients(event_longitude) ==
    IF event_longitude # Missing /\ event_longitude < 10500
    THEN [ a |-> 5643000, b |-> 153800, c |-> 2109, r0 |-> 2500 ]
    ELSE [ a |-> 6046000, b |-> 148000, c |-> 2081, r0 |-> 2500 ]

\* A + B * magnitude - C * log_term
RawIntensity(magnitude, distance_km, depth_km, event_longitude) ==
    LET k == AttenuationCoefficients(event_longitude)
        log_term == Ln(HypocentralR(distance_km, depth_km) + k.r0)
    IN  k.a + k.b * magnitude
            - ((k.c \div 1000) * log_term + ((k.c % 1000) * log_term) \div 1000)

\* mutant: the result is not clamped
calculate_estimated_intensity_unclamped(magnitude, distance_km, depth_km, event_longitude) ==
    RawIntensity(magnitude, distance_km, depth_km, event_longitude)

\* IntensityCalculator.calculate_estimated_intensity
calculate_estimated_intensity(magnitude, distance_km, depth_km, event_longitude) ==
    Maximum(0, Minimum(12 * IntensityUnit,
                       RawIntensity(magnitude, distance_km, depth_km, event_longitude)))

\* the epicentral distances of the model, in kilometres, far enough from each
\* other for two estimates to differ by more than the rounding
CalcDistances == {0, 2, 4, 8, 15, 30, 100, 400}

CalcArgs ==
    [ magnitude : {20, 50, 70, 90}, depth_km : {0, 3, 10},
      event_longitude : {Missing, 10000, 10500, 11000},
      distances : { pair \in CalcDistances \X CalcDistances : pair[1] < pair[2] } ]

\* the estimates for the nearer and for the farther distance
estimate_intensities ==
    /\ intensity_estimates = << >>
    /\ intensity_estimates' =
          [i \in 1..2 |->
              calculate_estimated_intensity(intensity_args.magnitude,
                                            intensity_args.distances[i],
                                            intensity_args.depth_km,
                                            intensity_args.event_longitude)]
    /\ UNCHANGED <<intensity_args, calcOthers>>

CalcStart(args) ==
    /\ intensity_args = args
    /\ intensity_estimates = << >>

CalcIdle == CalcStart(CHOOSE args \in CalcArgs : TRUE)

CalcNext == estimate_intensities


(***************************************************************************)
(* Claims about the deduplicator.                                          *)
(***************************************************************************)
SameLabel(event, existing_event) ==
    /\ event.info_type = existing_event.info_type
    /\ event.issue_type = existing_event.issue_type

C2_FinalRepeatAccepted ==
    (/\ last_call.called /\ last_call.had_source /\ last_call.in_window
     /\ last_call.event.updates \in last_call.existing.processed_reports
     /\ last_call.event.is_final
     /\ ~last_call.existing.is_final) =>
        /\ last_call.result
        /\ HasSource(recent_events, last_call.fingerprint, last_call.source_id)
        /\ recent_events[last_call.fingerprint][last_call.source_id].is_final

\* C2 witness: a final repeat of a processed report number has been accepted.
C2_Witness ==
    /\ last_call.called /\ last_call.had_source /\ last_call.in_window
    /\ last_call.event.updates \in last_call.existing.processed_reports
    /\ last_call.event.is_final
    /\ ~last_call.existing.is_final
    /\ last_call.result

\* C3: when the fingerprint has a record but the event's source has no entry
\* under it, the event is accepted whatever its fields and the entry is added.
C3_NewSourceAccepted ==
    (last_call.called /\ last_call.had_fingerprint /\ ~last_call.had_source) =>
        /\ last_call.result
        /\ HasSource(recent_events, last_call.fingerprint, last_call.source_id)
        /\ recent_events[last_call.fingerprint][last_call.source_id].processed_reports
              = {last_call.event.updates}

\* C3 witness: two sources hold an entry under one fingerprint, the second
\* one just added by an event that was final and not a first report.
C3_Witness ==
    /\ last_call.called /\ last_call.had_fingerprint /\ ~last_call.had_source
    /\ last_call.result
    /\ Cardinality(DOMAIN recent_events[last_call.fingerprint]) = 2

\* C4: an event identical (report number, final flag, label) to one already
\* accepted from the same source under the same fingerprint, arriving within
\* the window, is rejected.
C4_RebroadcastRejected ==
    (/\ last_call.called /\ last_call.had_source /\ last_call.in_window
     /\ last_call.seen_before) => ~last_call.result


(***************************************************************************)
(* Claims about the report-count gate.  They are stated on the DataSource  *)
(* of the event, not on the controller's source ids.                       *)
(***************************************************************************)
JmaClass == {"fan_studio_jma", "p2p_eew", "wolfx_jma_eew"}
CeaCwaClass == {"fan_studio_cea", "wolfx_cenc_eew", "fan_studio_cwa", "wolfx_cwa_eew"}
GlobalQuakeClass == {"global_quake"}
ReportControlled == JmaClass \cup CeaCwaClass \cup GlobalQuakeClass

ClassDivisor(config, source) ==
    IF source \in JmaClass THEN config.jma_report_n
    ELSE IF source \in GlobalQuakeClass THEN config.gq_report_n
    ELSE config.cea_cwa_report_n

GateCall ==
    /\ last_report.called
    /\ last_report.event.is_earthquake
    /\ last_report.event.source \in ReportControlled

\* C9 as stated: for a report-controlled source the gate forwards a final
\* event when final-always-forward is on, else a first report, else
\* suppresses a non-final event in ignore-non-final mode, else forwards iff
\* the report number is a multiple of the class divisor N (taken for N >= 1,
\* where the remainder is defined).
C9_OrderedRuleAsStated ==
    LET e == last_report.event
        n == ClassDivisor(report_config, e.source)
    IN  (GateCall /\ n >= 1) =>
          (last_report.result <=>
             IF e.is_final /\ report_config.final_report_always_push THEN TRUE
             ELSE IF e.updates = 1 THEN TRUE
             ELSE IF report_config.ignore_non_final_reports /\ ~e.is_final THEN FALSE
             ELSE e.updates % n = 0)

\* C9 amended: the same ordered rule, where an event counts as final only
\* when its source is of the JMA class and a divisor N <= 0 is taken as 1.
C9_OrderedRule ==
    LET e == last_report.event
        n == ClassDivisor(report_config, e.source)
        final == e.is_final /\ e.source \in JmaClass
    IN  GateCall =>
          (last_report.result <=>
             IF final /\ report_config.final_report_always_push THEN TRUE
             ELSE IF e.updates = 1 THEN TRUE
             ELSE IF report_config.ignore_non_final_reports /\ ~final THEN FALSE
             ELSE (n <= 0 \/ e.updates % n = 0))

\* C9 witness: a final second report of a CEA source is suppressed by the
\* divisor 3 although final-always-forward is on.
C9_Witness ==
    /\ GateCall
    /\ last_report.event.source = "fan_studio_cea"
    /\ last_report.event.is_final
    /\ last_report.event.updates = 2
    /\ report_config.final_report_always_push
    /\ report_config.cea_cwa_report_n = 3
    /\ ~last_report.result

\* a is a multiple of n
IsMultiple(a, n) == \E k \in 0..a : a = k * n

\* C11: the gate forwards every event that is no earthquake event and every
\* earthquake event whose source is not under report control, whatever the
\* report number, the final flag and the configuration.
C11_PassThrough ==
    (last_report.called
        /\ (~last_report.event.is_earthquake
               \/ last_report.event.source \notin ReportControlled))
    => last_report.result

\* C11 witness: in ignore-non-final mode a second, non-final report of a
\* source outside report control has been forwarded.
C11_Witness ==
    /\ last_report.called
    /\ last_report.event.is_earthquake
    /\ last_report.event.source = "fan_studio_cenc"
    /\ last_report.event.updates = 2
    /\ ~last_report.event.is_final
    /\ report_config.ignore_non_final_reports
    /\ last_report.result

\* C10 as stated: with ignore-non-final off, a non-final event of a
\* report-controlled source is forwarded iff its report number is 1 or a
\* multiple of the class divisor N.
C10_DivisorRuleAsStated ==
    LET e == last_report.event
        n == ClassDivisor(report_config, e.source)
    IN  (GateCall /\ ~report_config.ignore_non_final_reports /\ ~e.is_final) =>
          (last_report.result <=> (e.updates = 1 \/ IsMultiple(e.updates, n)))

\* C10 amended: the same for N >= 1; with a divisor N <= 0 every report is
\* forwarded.
C10_DivisorRule ==
    LET e == last_report.event
        n == ClassDivisor(report_config, e.source)
    IN  (GateCall /\ ~report_config.ignore_non_final_reports /\ ~e.is_final) =>
          (last_report.result <=>
             (e.updates = 1 \/ n <= 0 \/ (n >= 1 /\ IsMultiple(e.updates, n))))

\* C10 witness: with N = 3 for the JMA class, the sixth non-final report of
\* a JMA source is forwarded.
C10_Witness ==
    /\ GateCall
    /\ ~report_config.ignore_non_final_reports
    /\ report_config.jma_report_n = 3
    /\ last_report.event.source = "fan_studio_jma"
    /\ ~last_report.event.is_final
    /\ last_report.event.updates = 6
    /\ last_report.result

(***************************************************************************)
(* Claims about the connection manager.                                    *)
(***************************************************************************)
ConnectKinds == {"init", "rec"}

\* a connection attempt of the endpoint is in flight: its handshake is
\* awaited, or is over and not yet seen by connect
AttemptInFlight(name) ==
    \E k \in ConnectKinds : tasks[<<k, name>>].pc \in {"handshake", "handshake_done"}

\* reconnect() of the endpoint is past its retry check: it sleeps or has slept
RetryUnderWay(name) == tasks[<<"rec", name>>].pc \in {"sleeping", "woken"}

NoTaskAlive(name) == \A k \in TaskKinds : ~Alive(tasks[<<k, name>>])

\* the case of C5: a backup URL, every attempt so far failed with an error
\* that is retried, and the service has not been asked to stop
AllAttemptsFailed(name) ==
    /\ HasBackupUrl(name)
    /\ conn_hist[name].clean
    /\ stop_pc = "idle"

\* C5 as stated: once maxRetries attempts against the primary URL have
\* failed, the attempt that follows targets the backup URL; once maxRetries
\* further attempts against the backup have failed, nothing more is tried.
C5_FailoverAsStated ==
    \A name \in Names : AllAttemptsFailed(name) =>
        LET h == conn_hist[name]
        IN  /\ (AttemptInFlight(name) /\ h.failed_primary >= max_reconnect_retries)
                   => h.target = "backup"
            /\ h.failed_backup >= max_reconnect_retries
                   => ~AttemptInFlight(name) /\ ~RetryUnderWay(name)

\* C5: for an endpoint with a backup URL whose every attempt fails with a
\* retried error, while the service is not stopped: the primary URL is tried
\* maxRetries + 1 times (the first attempt and maxRetries retries), the
\* attempts that follow target the backup URL, and after maxRetries failed
\* attempts against the backup the endpoint is abandoned: no task of the
\* endpoint is left, so that no attempt is made any more.
C5_Failover ==
    \A name \in Names :
        LET h == conn_hist[name]
        IN  /\ AllAttemptsFailed(name) =>
                /\ h.failed_primary <= max_reconnect_retries + 1
                /\ h.failed_backup <= max_reconnect_retries
                /\ (AttemptInFlight(name) \/ RetryUnderWay(name)) =>
                       /\ h.failed_backup < max_reconnect_retries
                       /\ (h.failed_primary >= max_reconnect_retries + 1)
                              <=> (tasks[<<"rec", name>>].uri = "backup")
                /\ AttemptInFlight(name) =>
                       (h.target = "backup" <=>
                            h.failed_primary = max_reconnect_retries + 1)
                /\ h.failed_backup > 0 => h.failed_primary = max_reconnect_retries + 1
                /\ h.abandoned => /\ h.failed_primary = max_reconnect_retries + 1
                                  /\ h.failed_backup = max_reconnect_retries
            /\ h.abandoned => NoTaskAlive(name)

\* C5 witness: the endpoint with the backup URL has been abandoned after
\* maxRetries + 1 failures of the primary and maxRetries of the backup.
C5_Witness ==
    LET h == conn_hist["fan_studio_all"]
    IN  /\ AllAttemptsFailed("fan_studio_all")
        /\ h.abandoned
        /\ h.failed_primary = max_reconnect_retries + 1
        /\ h.failed_backup = max_reconnect_retries
        /\ h.target = "backup"

ErrorHandled(name) == conn_hist[name].last_error.handled

ReconnectScheduled(name) == Alive(tasks[<<"sched", name>>])

TransientErrors == {"timeout", "reset", "refused", "abrupt_close"}

\* C6 as stated: a handshake/protocol mismatch or an authentication
\* rejection schedules no reconnect; a transient error handled while the
\* manager is running schedules one.
C6_ReconnectDecisionAsStated ==
    \A name \in Names : ErrorHandled(name) =>
        LET e == conn_hist[name].last_error
        IN  /\ e.error \in {"handshake_mismatch", "auth_rejected"}
                   => ~ReconnectScheduled(name)
            /\ (e.error \in TransientErrors /\ e.running) => ReconnectScheduled(name)

\* C6: an error handled while the manager is running schedules a reconnect
\* unless its text names SSL or a certificate, or the status 401 or 403,
\* without any of the retry phrases: an authentication rejection and a
\* certificate failure abandon the endpoint; a handshake/protocol mismatch
\* and the transient errors (timeout, reset, refused, abrupt close) schedule
\* a reconnect.  No reconnect is scheduled while the manager is not running.
C6_ReconnectDecision ==
    \A name \in Names : ErrorHandled(name) =>
        LET e == conn_hist[name].last_error
        IN  ReconnectScheduled(name)
                <=> (e.running /\ e.error \notin {"auth_rejected", "ssl_failure"})

\* C6 witness: a handshake mismatch of one endpoint has scheduled a
\* reconnect, an authentication rejection of the other has scheduled none.
C6_Witness ==
    \E a, b \in Names :
        /\ ErrorHandled(a) /\ ErrorHandled(b)
        /\ conn_hist[a].last_error.running /\ conn_hist[b].last_error.running
        /\ conn_hist[a].last_error.error = "handshake_mismatch"
        /\ ReconnectScheduled(a)
        /\ conn_hist[b].last_error.error = "auth_rejected"
        /\ ~ReconnectScheduled(b)

\* the step is the end of the handling of a message of the endpoint, with an
\* exception raised by the logging or by the handler
MessageRaised(name) ==
    LET before == conn_hist[name].stream
        after == conn_hist'[name].stream
    IN  /\ Len(after) = Len(before) + 1
        /\ after[Len(after)] \in Raised

\* C7: an exception raised while a message is logged, dispatched or handled
\* leaves the task in the message loop, waiting for the next message of the
\* same stream: the step changes neither connections nor connection_info
\* and no reconnect is scheduled.
C7_MessageErrorKeepsStream ==
    [][ \A id \in TaskIds :
            (ready # << >> /\ Head(ready) = id /\ MessageRaised(id[2])) =>
                /\ tasks'[id].pc = "reading"
                /\ connections' = connections
                /\ connection_info' = connection_info
                /\ ~ReconnectScheduled(id[2])'
                /\ ~ErrorHandled(id[2])' ]_vars

\* C7 witness: on one stream the handler raised on a message and the next
\* message was dispatched to the handler and handled.
C7_Witness ==
    \E name \in Names :
        /\ conn_hist[name].stream = <<"handler_raised", "ok">>
        /\ InSeq(connections, name)
        /\ \E k \in ConnectKinds : tasks[<<k, name>>].pc = "reading"

\* C8: once stop has completed, no task of any endpoint is left: no attempt
\* is in flight or will be started, no reconnect is pending.
C8_NothingAfterStop ==
    stop_pc = "done" => \A name \in Names : NoTaskAlive(name)



(***************************************************************************)
(* Claims about the fingerprint.                                           *)
(***************************************************************************)
LocationCell(e) ==
    << RoundHalfEven(e.latitude * 111, 100 * location_tolerance_km),
       RoundHalfEven(e.longitude * 111, 100 * location_tolerance_km) >>

MagnitudeStep(e) == RoundHalfEven(e.magnitude, magnitude_tolerance_tenths)

TimeBucket(e) == e.shock_time \div 60

\* two earthquake events of different sources in the same location cell,
\* magnitude step and time bucket, with their fingerprints computed
SameQuakeTwoSources ==
    LET a == fingerprint_pair[1]
        b == fingerprint_pair[2]
    IN  /\ fingerprint_keys # << >>
        /\ a.is_earthquake /\ b.is_earthquake
        /\ a.source # b.source
        /\ a.has_shock_time /\ b.has_shock_time
        /\ LocationCell(a) = LocationCell(b)
        /\ MagnitudeStep(a) = MagnitudeStep(b)
        /\ TimeBucket(a) = TimeBucket(b)

\* the event is keyed by its grid cell: it has no Global Quake event id and
\* neither coordinate is zero
GridKeyed(e) ==
    /\ ~(e.source = "global_quake" /\ e.event_id # "")
    /\ e.latitude # 0
    /\ e.longitude # 0

\* C12 as stated: two earthquake events of different sources in the same
\* location cell, magnitude step and time bucket get equal fingerprints.
C12_SameQuakeSameFingerprintAsStated ==
    SameQuakeTwoSources => fingerprint_keys[1] = fingerprint_keys[2]

\* C12: two earthquake events of different sources in the same location
\* cell, magnitude step and time bucket get equal fingerprints, provided
\* neither is a Global Quake event carrying an event id and neither has a
\* zero latitude or longitude.
C12_SameQuakeSameFingerprint ==
    (SameQuakeTwoSources /\ GridKeyed(fingerprint_pair[1]) /\ GridKeyed(fingerprint_pair[2]))
        => fingerprint_keys[1] = fingerprint_keys[2]

\* C12 witness: a CEA and a JMA event at different points of one cell, with
\* magnitudes 5.0 and 5.2 and times 0 s and 59 s, got the same fingerprint.
C12_Witness ==
    /\ SameQuakeTwoSources
    /\ fingerprint_pair[1].source = "fan_studio_cea"
    /\ fingerprint_pair[2].source = "fan_studio_jma"
    /\ fingerprint_pair[1].latitude = 5 /\ fingerprint_pair[2].latitude = 9
    /\ fingerprint_pair[1].magnitude = 50 /\ fingerprint_pair[2].magnitude = 52
    /\ fingerprint_pair[1].shock_time = 0 /\ fingerprint_pair[2].shock_time = 59
    /\ fingerprint_keys[1] = fingerprint_keys[2]

(***************************************************************************)
(* Claims about MessagePushManager.push_event.                             *)
(***************************************************************************)
\* the deduplicator holds the event among those accepted from its source
HeldByDeduplicator(event) ==
    ~event.is_earthquake
    \/ Signature(event) \in HistoryOf(_generate_event_fingerprint(event, now),
                                      _get_source_id(event))

\* should_push_event lets the event through, under the filters and the clock
ShouldPush(event) ==
    should_push_event_outcome(filters, report_config, utc_now, event) = "pass"

\* the call went through both gates, the deduplicator first
PassedBoth(call) ==
    call.gates = <<"dedup", "should_push">> /\ call.accepted /\ call.outcome = "pass"

\* the call was turned down by the deduplicator or by should_push_event
TurnedDown(call) ==
    call.gates # << >> /\ ~(call.accepted /\ call.outcome = "pass")

\* the sessions the call has sent to, in order
Attempted(call) == [ i \in 1..Len(call.sends) |-> call.sends[i][1] ]

SomeSendSucceeded(call) == \E i \in 1..Len(call.sends) : call.sends[i][2] = "sent"

\* C13: push_event sends to a destination only after the deduplicator
\* accepted the event and then should_push_event returned true, asked in
\* that order (should_push_event only after an acceptance); when either
\* turns the event down nothing is sent and no push record is written.
C13_SendOnlyAfterBothGates ==
    \A task \in PushTaskIds :
        LET call == push_tasks[task]
        IN  /\ call.gates \in {<< >>, <<"dedup">>, <<"dedup", "should_push">>}
            /\ (call.gates = <<"dedup", "should_push">>) = (call.gates # << >> /\ call.accepted)
            /\ (call.sends # << >> \/ call.recorded \/ call.pc \in {"building", "sending"})
                  => /\ PassedBoth(call)
                     /\ HeldByDeduplicator(call.event)
                     /\ ShouldPush(call.event)
            /\ TurnedDown(call)
                  => /\ call.sends = << >> /\ ~call.recorded /\ ~call.result
                     /\ call.pc = "done"
                     /\ \A i \in 1..Len(event_push_records) :
                           event_push_records[i] = call.event
                              => HeldByDeduplicator(call.event) /\ ShouldPush(call.event)

\* C13 witness: one call has sent the event to both sessions after both
\* gates, the other call was turned down by should_push_event after the
\* deduplicator had accepted its event and has sent nothing.
C13_Witness ==
    /\ Len(push_tasks["ws"].sends) = 2
    /\ PassedBoth(push_tasks["ws"])
    /\ push_tasks["http"].gates = <<"dedup", "should_push">>
    /\ push_tasks["http"].accepted
    /\ push_tasks["http"].outcome = "severity"
    /\ push_tasks["http"].sends = << >>
    /\ push_tasks["http"].pc = "done"

\* C14 as stated: once an event passed both gates, every target session got
\* exactly one send attempt and the result is true iff a send succeeded.
C14_EverySessionOneAttemptAsStated ==
    \A task \in PushTaskIds :
        LET call == push_tasks[task]
        IN  (call.pc = "done" /\ PassedBoth(call)) =>
               /\ Attempted(call) = target_sessions
               /\ call.result = SomeSendSucceeded(call)

\* C14: once an event passed both gates and its message was built, every
\* target session got exactly one send attempt, in order, whatever the
\* earlier sends did, and the result is true iff a send succeeded; while the
\* sends are under way the sessions before the current one have one attempt
\* each; when the building of the message raised, nothing was sent and the
\* result is false.
C14_EverySessionOneAttempt ==
    \A task \in PushTaskIds :
        LET call == push_tasks[task]
        IN  /\ (call.pc = "done" /\ PassedBoth(call) /\ call.built = "built") =>
                  /\ Attempted(call) = target_sessions
                  /\ call.result = SomeSendSucceeded(call)
            /\ (call.pc = "sending") =>
                  /\ call.index \in 1..Len(target_sessions)
                  /\ Attempted(call) = SubSeq(target_sessions, 1, call.index - 1)
            /\ (call.pc = "done" /\ PassedBoth(call) /\ call.built = "raised") =>
                  /\ call.sends = << >> /\ ~call.result /\ ~call.recorded

\* C14 witness: with two target sessions, the send to the first failed, the
\* second was attempted and succeeded, and push_event returned true.
C14_Witness ==
    /\ Len(target_sessions) = 2
    /\ push_tasks["ws"].pc = "done"
    /\ PassedBoth(push_tasks["ws"])
    /\ push_tasks["ws"].sends = <<<<1, "failed">>, <<2, "sent">>>>
    /\ push_tasks["ws"].result

RecordHasLabel(event) ==
    LET fp == _generate_event_fingerprint(event, now)
        sid == _get_source_id(event)
    IN  HasSource(recent_events, fp, sid) => SameLabel(event, recent_events[fp][sid])

\* the same, for the events whose label is the one the record holds: the
\* two decisions are taken one after the other, whatever the interleaving
C15_OneOfTwoAcceptedSameLabel ==
    \A t1, t2 \in PushTaskIds :
        (/\ t1 # t2
         /\ push_tasks[t1].event.is_earthquake
         /\ push_tasks[t1].gates # << >> /\ push_tasks[t2].gates # << >>
         /\ push_tasks[t1].event = push_tasks[t2].event
         /\ RecordHasLabel(push_tasks[t1].event))
            => /\ ~(push_tasks[t1].accepted /\ push_tasks[t2].accepted)
               /\ HeldByDeduplicator(push_tasks[t1].event)

(***************************************************************************)
(* Claims about the message loop and about the isolation of the endpoints. *)
(***************************************************************************)
\* C16: on one connection at most one message is being handled: while the
\* task waits for the next message, has received it, or has seen the stream
\* end, no handler it called is still running, so that the handling of a
\* message begins only after the handling of the one before it has ended.
C16_OneMessageAtATime ==
    \A id \in TaskIds :
        /\ tasks[id].handlers \in {0, 1}
        /\ tasks[id].handlers = 1 <=> tasks[id].pc \in {"handling", "handler_done"}
        /\ tasks[id].pc \in {"reading", "got_message", "got_close"}
              => tasks[id].handlers = 0

\* C16 witness: the second message of a stream is being handled, the first
\* one has been handled.
C16_Witness ==
    \E id \in TaskIds :
        /\ tasks[id].pc = "handling"
        /\ tasks[id].handlers = 1
        /\ conn_hist[id[2]].stream = <<"ok">>

\* what the manager holds for one endpoint: its open stream, its stored
\* info, its retry count, its registered reconnect, its tasks, the messages
\* handled on its stream and the order of its tasks in the ready queue
EndpointState(name) ==
    << InSeq(connections, name), connection_info[name], connection_retry_counts[name],
       reconnect_tasks[name], [k \in TaskKinds |-> tasks[<<k, name>>]],
       conn_hist[name].stream, SelectSeq(ready, LAMBDA x : x[2] = name) >>

\* a step of the error handling or of the reconnect cycle of an endpoint:
\* an attempt is begun, its handshake has failed or succeeded, its stream
\* has ended, a reconnect is scheduled, decided (retry, failover or
\* abandonment) or woken
EndpointStep(name) ==
    \/ \E k \in ConnectKinds :
          \/ connect_begin(<<k, name>>)
          \/ \E error \in HandshakeErrors : connect_handshake_done(<<k, name>>, error)
          \/ connect_stream_end(<<k, name>>)
    \/ _schedule_reconnect(name)
    \/ reconnect_begin(name)
    \/ timer_fires(name)

\* C17: a step of the error handling or of the reconnect cycle of one
\* endpoint leaves unchanged what the manager holds for every other one.
C17_OtherEndpointsUnchanged ==
    [][ \A name \in Names :
            EndpointStep(name) =>
                \A other \in Names \ {name} : EndpointState(other)' = EndpointState(other)
      ]_vars

\* C17 witness: one endpoint has failed over to its backup URL while the
\* other one holds an open stream on which a message was handled, with its
\* retry count at 0.
C17_Witness ==
    /\ conn_hist["fan_studio_all"].target = "backup"
    /\ conn_hist["fan_studio_all"].failed_primary = max_reconnect_retries + 1
    /\ conn_hist["fan_studio_all"].clean
    /\ InSeq(connections, "p2p_main")
    /\ tasks[<<"init", "p2p_main">>].pc = "reading"
    /\ conn_hist["p2p_main"].stream = <<"ok">>
    /\ connection_retry_counts["p2p_main"] = 0
    /\ stop_pc = "idle"

\* the retries an endpoint is given: maxRetries, for each of its URLs
RetryBudget(name) ==
    IF HasBackupUrl(name) THEN 2 * max_reconnect_retries ELSE max_reconnect_retries

\* connect has just seen the handshake of the task succeed
HandshakeSucceeded(id) ==
    /\ ready # << >> /\ Head(ready) = id
    /\ tasks[id].pc = "handshake_done" /\ tasks[id].outcome = "ok"
    /\ tasks'[id].pc = "reading"

\* C18: the step of connect that sees a handshake succeed sets the retry
\* count of the endpoint to 0; and while the service is not stopped, the
\* attempts that fail with a retried error after a successful handshake
\* number at most the full budget of retries, the endpoint being abandoned
\* only once that many have failed.
C18_SuccessResetsRetryCount ==
    /\ [][ \A id \in TaskIds :
              HandshakeSucceeded(id) => connection_retry_counts'[id[2]] = 0 ]_vars
    /\ [](\A name \in Names :
            (conn_hist[name].since_success >= 0 /\ stop_pc = "idle") =>
               /\ conn_hist[name].since_success <= RetryBudget(name)
               /\ conn_hist[name].abandoned
                     => conn_hist[name].since_success = RetryBudget(name)
               /\ (AttemptInFlight(name) \/ RetryUnderWay(name))
                     => conn_hist[name].since_success < RetryBudget(name))

\* C18 witness: an endpoint whose first attempt failed connected on a retry,
\* lost the stream, and was abandoned after the full budget of retries had
\* failed.
C18_Witness ==
    \E name \in Names :
        /\ conn_hist[name].failed_primary >= 1
        /\ conn_hist[name].since_success = RetryBudget(name)
        /\ conn_hist[name].abandoned
        /\ stop_pc = "idle"

(***************************************************************************)
(* Claims about should_push_event and the severity filters.  The offsets   *)
(* of C19 are stated on the DataSource of the event.                       *)
(***************************************************************************)
JmaP2pSources ==
    {"fan_studio_jma", "p2p_eew", "p2p_earthquake", "p2p_tsunami",
     "wolfx_jma_eew", "wolfx_jma_eq"}

SourceOffsetHours(event) ==
    IF event.source \in JmaP2pSources THEN 9
    ELSE IF event.source = "global_quake" THEN 0
    ELSE 8

\* the occurrence time of the event in UTC seconds: an aware time as it is,
\* a naive one read in the offset of its source
OccurrenceUtc(event) ==
    IF event.time_aware THEN event.shock_time
    ELSE event.shock_time - SourceOffsetHours(event) * HourSeconds

ShouldPushCalled == filter_call.called /\ filter_call.function = "should_push_event"

\* C19: should_push_event returns false for every event, earthquake or
\* not, that has an occurrence time lying more than one hour before the
\* current time.
C19_StaleNeverPushed ==
    (/\ ShouldPushCalled
     /\ filter_call.event.has_shock_time
     /\ utc_now - OccurrenceUtc(filter_call.event) > HourSeconds)
        => ~filter_call.result /\ filter_call.outcome = "stale"

\* C19 witness: a FAN Studio JMA warning strong enough for its filter, one
\* hour and one second old in UTC+9 (it would be one second young in UTC+8),
\* has been turned down as too old.
C19_Witness ==
    /\ ShouldPushCalled
    /\ filter_call.event.source = "fan_studio_jma"
    /\ filter_call.event.magnitude = 45
    /\ filter_call.event.updates = 1
    /\ ~filter_call.event.time_aware /\ filter_call.event.has_shock_time
    /\ utc_now - (filter_call.event.shock_time - 9 * HourSeconds) = HourSeconds + 1
    /\ filter_call.outcome = "stale"
    /\ ~filter_call.result

\* the call went past the severity filter and the report gate of an
\* earthquake, to the local estimator
ReachedLocalMonitor ==
    /\ ShouldPushCalled
    /\ filter_call.event.is_earthquake
    /\ filter_call.outcome \in {"local", "pass"}

\* C21: an enabled local estimator in strict mode suppresses every event
\* reaching it whose estimated local intensity is below the threshold, in
\* non-strict mode it suppresses none, and in both modes the estimate is
\* attached to every event reaching it.
C21_LocalEstimator ==
    (ReachedLocalMonitor /\ filters.local_monitor.enabled) =>
        /\ filter_call.attached
        /\ (/\ filters.local_monitor.strict_mode
            /\ filter_call.event.estimated_intensity < filters.local_monitor.threshold)
               => (filter_call.outcome = "local" /\ ~filter_call.result)
        /\ ~filters.local_monitor.strict_mode
               => (filter_call.outcome = "pass" /\ filter_call.result)

\* C21 witness: in strict mode an event estimated at 1.0 under the threshold
\* 2.0 has been suppressed by the local estimator, its estimate attached.
C21_Witness ==
    /\ ReachedLocalMonitor
    /\ filters.local_monitor = [enabled |-> TRUE, strict_mode |-> TRUE, threshold |-> 20]
    /\ filter_call.event.latitude # Missing
    /\ filter_call.event.estimated_intensity = 10
    /\ filter_call.outcome = "local"
    /\ filter_call.attached

\* in non-strict mode the same event passes with its estimate attached
C21_NonStrictWitness ==
    /\ ReachedLocalMonitor
    /\ filters.local_monitor = [enabled |-> TRUE, strict_mode |-> FALSE, threshold |-> 20]
    /\ filter_call.event.estimated_intensity = 10
    /\ filter_call.result
    /\ filter_call.attached

ScaleFilterCalled == filter_call.called /\ filter_call.function = "ScaleFilter"

\* the scale of the event is missing or below the minimum scale
ScaleBelow(filter, earthquake) ==
    earthquake.scale = Missing \/ earthquake.scale < filter.min_scale

\* the magnitude of the event is missing, the value -1.0, or below the
\* minimum magnitude
MagnitudeBelowOrUnknown(filter, earthquake) ==
    \/ earthquake.magnitude = Missing
    \/ earthquake.magnitude = -10
    \/ earthquake.magnitude < filter.min_magnitude

\* C28 as stated: the scale filter suppresses an event iff neither its
\* magnitude, the value -1.0 never counting, nor its scale reaches the
\* minimum; an event of magnitude -1.0 is suppressed iff its scale is missing
\* or below the minimum scale.
C28_ScaleFilterRuleAsStated ==
    ScaleFilterCalled =>
        /\ filter_call.result
              <=> (/\ MagnitudeBelowOrUnknown(filters.scale_filter, filter_call.event)
                   /\ ScaleBelow(filters.scale_filter, filter_call.event))
        /\ filter_call.event.magnitude = -10
              => (filter_call.result <=> ScaleBelow(filters.scale_filter, filter_call.event))

\* C28: the same of an enabled scale filter; a disabled one suppresses no
\* event.
C28_ScaleFilterRule ==
    ScaleFilterCalled =>
        IF filters.scale_filter.enabled
        THEN /\ filter_call.result
                   <=> (/\ MagnitudeBelowOrUnknown(filters.scale_filter, filter_call.event)
                        /\ ScaleBelow(filters.scale_filter, filter_call.event))
             /\ filter_call.event.magnitude = -10
                   => (filter_call.result
                          <=> ScaleBelow(filters.scale_filter, filter_call.event))
        ELSE ~filter_call.result

\* C28 witness: the enabled filter with minimum magnitude -2.0 has
\* suppressed an event of magnitude -1.0 whose scale is missing.
C28_Witness ==
    /\ ScaleFilterCalled
    /\ filters.scale_filter.enabled
    /\ filters.scale_filter.min_magnitude = -20
    /\ filter_call.event.magnitude = -10
    /\ filter_call.event.scale = Missing
    /\ filter_call.result

\* and it has let through an event of magnitude -1.0 whose scale reaches
\* the minimum
C28_PassWitness ==
    /\ ScaleFilterCalled
    /\ filters.scale_filter.enabled
    /\ filter_call.event.magnitude = -10
    /\ filter_call.event.scale # Missing
    /\ filter_call.event.scale >= filters.scale_filter.min_scale
    /\ ~filter_call.result

IntensityFilterCalled == filter_call.called /\ filter_call.function = "IntensityFilter"

\* neither the magnitude nor the intensity of the event reaches its
\* threshold, a missing value reaching none
BelowBothThresholds(filter, earthquake) ==
    /\ ~(earthquake.magnitude # Missing /\ earthquake.magnitude >= filter.min_magnitude)
    /\ ~(earthquake.intensity # Missing /\ earthquake.intensity >= filter.min_intensity)

\* C20 as stated: the intensity filter suppresses an event iff the event is
\* below both thresholds.
C20_IntensityFilterRuleAsStated ==
    IntensityFilterCalled =>
        (filter_call.result
            <=> BelowBothThresholds(filters.intensity_filter, filter_call.event))

\* C20: the intensity filter, when enabled, suppresses an event iff the
\* event is below both thresholds; when disabled it suppresses no event.
C20_IntensityFilterRule ==
    IntensityFilterCalled =>
        IF filters.intensity_filter.enabled
        THEN filter_call.result
                <=> BelowBothThresholds(filters.intensity_filter, filter_call.event)
        ELSE ~filter_call.result

\* C20 witness: with the thresholds 4.0 and 5.0 the enabled filter has let
\* an event of magnitude 3.5 and intensity 5.5 through.
C20_Witness ==
    /\ IntensityFilterCalled
    /\ filters.intensity_filter = [enabled |-> TRUE, min_magnitude |-> 40,
                                   min_intensity |-> 50]
    /\ filter_call.event.magnitude = 35 /\ filter_call.event.intensity = 55
    /\ ~filter_call.result

\* with the same thresholds, magnitude 3.5 and intensity 4.0 are suppressed
C20_SuppressedExample ==
    (/\ IntensityFilterCalled
     /\ filters.intensity_filter = [enabled |-> TRUE, min_magnitude |-> 40,
                                    min_intensity |-> 50]
     /\ filter_call.event.magnitude = 35 /\ filter_call.event.intensity = 40)
        => filter_call.result

(***************************************************************************)
(* Claims about the time window, the label upgrades and the sweep of the   *)
(* deduplicator.                                                           *)
(***************************************************************************)
EarthquakeCall == last_call.called /\ last_call.event.is_earthquake

\* the time should_push_event takes for the event: its occurrence time, or
\* the wall clock of the call when it has none
CallEventTime ==
    IF last_call.event.has_shock_time THEN last_call.event.shock_time ELSE last_call.at

\* the record of the event's source under its fingerprint, after the call
RecordAfterCall == recent_events[last_call.fingerprint][last_call.source_id]

\* C24 as stated: when the source has an entry and more than the dedup window
\* of time has passed since that entry was last written, the event is
\* accepted and the entry is overwritten.
C24_ExpiredEntryOverwrittenAsStated ==
    (/\ EarthquakeCall
     /\ last_call.had_source
     /\ last_call.at - last_call.updated_at > time_window_seconds)
        => /\ last_call.result
           /\ RecordAfterCall.processed_reports = {last_call.event.updates}

\* C24: when the source has an entry and the event's occurrence time (the
\* wall clock for an event without one) lies more than the dedup window away
\* from the time stored in the entry, which is that of the event last
\* accepted, the event is accepted, whatever its report number, final flag
\* and label, and the entry is overwritten, its processed reports being this
\* event's report number alone.
C24_ExpiredEntryOverwritten ==
    (/\ EarthquakeCall
     /\ last_call.had_source
     /\ Abs(CallEventTime - last_call.existing.timestamp) > time_window_seconds)
        => /\ last_call.result
           /\ RecordAfterCall = NewRecord(last_call.event, CallEventTime)
           /\ RecordAfterCall.processed_reports = {last_call.event.updates}

\* C24 witness: a Global Quake revision 1 whose entry holds the revisions 1
\* and 2 comes again with an origin time 100 seconds later, is accepted, and
\* the entry holds revision 1 alone.
C24_Witness ==
    /\ EarthquakeCall
    /\ last_call.had_source
    /\ last_call.seen_before
    /\ last_call.existing.processed_reports = {1, 2}
    /\ last_call.event.updates = 1
    /\ Abs(CallEventTime - last_call.existing.timestamp) > time_window_seconds
    /\ last_call.result
    /\ RecordAfterCall.processed_reports = {1}

\* the event of the entry comes again 70 seconds after the entry was written
\* and is turned down, its occurrence time being the one stored
C24_RepeatAfterWindowRejected ==
    /\ EarthquakeCall
    /\ last_call.had_source
    /\ last_call.at - last_call.updated_at > time_window_seconds
    /\ CallEventTime = last_call.existing.timestamp
    /\ ~last_call.result

\* the place of a JMA issue type in ScalePrompt < Destination <
\* ScaleAndDestination < DetailScale, 0 for any other
JmaRank(issue_type) ==
    CASE issue_type = "ScalePrompt"         -> 1
      [] issue_type = "Destination"         -> 2
      [] issue_type = "ScaleAndDestination" -> 3
      [] issue_type = "DetailScale"         -> 4
      [] OTHER                              -> 0

\* the label of the event is a recognised upgrade over the stored one
RecognisedUpgrade(event, stored) ==
    \/ /\ event.source = "fan_studio_usgs"
       /\ Lower(stored.info_type) = "automatic"
       /\ Lower(event.info_type) = "reviewed"
    \/ /\ JmaRank(stored.issue_type) > 0
       /\ JmaRank(event.issue_type) > JmaRank(stored.issue_type)
    \/ /\ stored.info_type = "auto_cn"
       /\ event.info_type = "formal_cn"

\* within the window, the report number is among the processed ones and the
\* event does not newly become final
RepeatWithinWindow ==
    /\ EarthquakeCall
    /\ last_call.had_source /\ last_call.in_window
    /\ last_call.event.updates \in last_call.existing.processed_reports
    /\ ~(last_call.event.is_final /\ ~last_call.existing.is_final)

\* C25: within the window, an event whose report number is already processed
\* and that does not newly become final is accepted iff its label is a
\* recognised upgrade over the label the record holds.
C25_AcceptedIffLabelUpgrade ==
    RepeatWithinWindow =>
        (last_call.result <=> RecognisedUpgrade(last_call.event, last_call.existing))

\* C25 witness: P2P earthquake information of issue type DetailScale has been
\* accepted over a record holding ScalePrompt.
C25_Witness ==
    /\ RepeatWithinWindow
    /\ last_call.existing.issue_type = "ScalePrompt"
    /\ last_call.event.issue_type = "DetailScale"
    /\ last_call.result

\* the reverse, ScalePrompt over a record holding DetailScale, is rejected
C25_LowerWitness ==
    /\ RepeatWithinWindow
    /\ last_call.existing.issue_type = "DetailScale"
    /\ last_call.event.issue_type = "ScalePrompt"
    /\ ~last_call.result

\* every source entry under the fingerprint was older than the cutoff
AllEntriesOlder(f) ==
    \A s \in DOMAIN last_cleanup.before[f] :
        last_cleanup.before[f][s].timestamp < last_cleanup.cutoff_time

\* the sweep removed exactly the fingerprints whose entries were all older
\* than the cutoff and left the others as they were
SweptExactlyTheOld ==
    \A f \in DOMAIN last_cleanup.before :
        /\ f \notin DOMAIN recent_events <=> AllEntriesOlder(f)
        /\ f \in DOMAIN recent_events => recent_events[f] = last_cleanup.before[f]

\* C26: the sweep completes without error and removes a fingerprint's record
\* iff every source entry under it is older than the current time minus
\* twice the dedup window, leaving every other record unchanged.
C26_SweepRemovesTheOld ==
    last_cleanup.called => (~last_cleanup.raised /\ SweptExactlyTheOld)

\* a sweep over records that hold a Global Quake entry has raised and has
\* left in place a fingerprint whose entries are all older than the cutoff
C26_SweepRaised ==
    /\ last_cleanup.called
    /\ last_cleanup.raised
    /\ \E f \in DOMAIN last_cleanup.before :
          /\ \A s \in DOMAIN last_cleanup.before[f] : ~last_cleanup.before[f][s].aware
          /\ AllEntriesOlder(f)
          /\ f \in DOMAIN recent_events

\* what does hold: a sweep over records without an aware timestamp does not
\* raise and removes exactly the old fingerprints
C26_SweepOfNaiveTimestamps ==
    (/\ last_cleanup.called
     /\ \A f \in DOMAIN last_cleanup.before : \A s \in DOMAIN last_cleanup.before[f] :
           ~last_cleanup.before[f][s].aware)
        => (~last_cleanup.raised /\ SweptExactlyTheOld)

\* such a sweep has removed one fingerprint and kept another
C26_SweepOfNaiveTimestampsWitness ==
    /\ last_cleanup.called /\ ~last_cleanup.raised
    /\ \E f \in DOMAIN last_cleanup.before : f \notin DOMAIN recent_events
    /\ recent_events # << >>

\* one event, whose fingerprint was computed at two different moments
ComputedTwice ==
    /\ Len(fingerprint_keys) = 2
    /\ fingerprint_pair[1] = fingerprint_pair[2]
    /\ fingerprint_moments[1] # fingerprint_moments[2]

\* C27 as stated: the fingerprints of one event computed at two different
\* moments are the same key.
C27_SameKeyAtTwoMomentsAsStated == ComputedTwice => fingerprint_keys[1] = fingerprint_keys[2]

\* the key of the event is made of the grid cell and the minute, and the
\* event has no occurrence time
KeyedByClock(earthquake) ==
    /\ ~earthquake.has_shock_time
    /\ ~(earthquake.source = "global_quake" /\ earthquake.event_id # "")
    /\ earthquake.latitude # 0 /\ earthquake.longitude # 0

\* C27: the fingerprints of one event computed at two different moments are
\* the same key when the event has an occurrence time, is a Global Quake
\* event with an id or lacks a coordinate; for any other event each key
\* holds the minute of its computation.
C27_SameKeyAtTwoMoments ==
    ComputedTwice =>
        IF KeyedByClock(fingerprint_pair[1])
        THEN \A i \in 1..2 : fingerprint_keys[i].time_minute = fingerprint_moments[i] \div 60
        ELSE fingerprint_keys[1] = fingerprint_keys[2]

\* C27 witness: the grid fingerprint of an event with an occurrence time has
\* been computed at two moments 70 seconds apart, with the same key.
C27_Witness ==
    /\ ComputedTwice
    /\ fingerprint_pair[1].has_shock_time
    /\ fingerprint_keys[1].kind = "grid"
    /\ fingerprint_moments[2] - fingerprint_moments[1] = TickSeconds
    /\ fingerprint_keys[1] = fingerprint_keys[2]

\* an event without occurrence time has got two different keys
C27_TwoKeysWitness ==
    /\ ComputedTwice
    /\ KeyedByClock(fingerprint_pair[1])
    /\ fingerprint_keys[1] # fingerprint_keys[2]

(***************************************************************************)
(* Claims about the handlers.                                              *)
(***************************************************************************)
ParsedBy(source_id) == parse_call.called /\ handler_source = source_id

EmittedEvent == parse_call.outcome = "event"

\* the message carries the id of an alert for which this handler has
\* emitted an Event before
RepeatsEmittedId == parse_call.called /\ parse_call.seen_before

\* C22: a tsunami or weather message carrying the id of an alert for which
\* the handler has already emitted an Event yields no Event.
C22_DuplicateIdYieldsNoEvent ==
    (/\ ParsedBy("china_weather_fanstudio") \/ ParsedBy("china_tsunami_fanstudio")
     /\ RepeatsEmittedId)
        => ~EmittedEvent

\* the tsunami handler has emitted a second Event for the alert id 1
C22_TsunamiEmittedTwice ==
    /\ ParsedBy("china_tsunami_fanstudio")
    /\ parse_call.msg_data.id = 1
    /\ RepeatsEmittedId
    /\ EmittedEvent

\* the weather handler has emitted a second Event for the alert id 1, ten
\* other alerts having been emitted in between
C22_WeatherEmittedTwice ==
    /\ ParsedBy("china_weather_fanstudio")
    /\ parse_call.msg_data.id = 1
    /\ RepeatsEmittedId
    /\ emitted_alerts > ProcessedWeatherIdsMaxlen
    /\ EmittedEvent

\* what the weather handler does do: an id among its processed ids, which
\* are the last ten it emitted, yields no Event
C22_WeatherIdInCacheYieldsNoEvent ==
    (/\ ParsedBy("china_weather_fanstudio")
     /\ parse_call.msg_data.id # 0
     /\ parse_call.in_cache)
        => ~EmittedEvent

\* the payload of the parsed message meets the heartbeat condition
MeetsHeartbeatCondition ==
    parse_call.called /\ HeartbeatPattern(handler_source, parse_call.msg_data)

\* C23: a handler that detects heartbeats returns no Event for a message
\* whose payload meets the heartbeat condition, whenever the message comes.
C23_HeartbeatYieldsNoEvent == MeetsHeartbeatCondition => ~EmittedEvent

\* the weather handler has emitted an Event for a message with latitude and
\* longitude 0, parsed less than 30 seconds after a heartbeat check
C23_WeatherHeartbeatEmitted ==
    /\ ParsedBy("china_weather_fanstudio")
    /\ parse_call.msg_data.coordinates = "zero"
    /\ parse_call.skipped
    /\ handler_now - last_heartbeat_check < HeartbeatCheckSeconds
    /\ EmittedEvent

\* the tsunami handler has emitted an Event for a message with two of its
\* three required fields empty, parsed less than 30 seconds after a check
C23_TsunamiHeartbeatEmitted ==
    /\ ParsedBy("china_tsunami_fanstudio")
    /\ parse_call.msg_data.fields = {"warningInfo.title"}
    /\ parse_call.skipped
    /\ EmittedEvent

\* what does hold: a message meeting the condition yields no Event when the
\* patterns are looked for, that is 30 seconds or more after the last check
C23_HeartbeatYieldsNoEventWhenChecked ==
    (MeetsHeartbeatCondition /\ ~parse_call.skipped) => parse_call.outcome = "heartbeat"

\* the USGS handler turns such a message down also when the check is skipped
C23_UsgsHeartbeatYieldsNoEvent ==
    (MeetsHeartbeatCondition /\ ParsedBy("usgs_fanstudio")) => ~EmittedEvent

\* C29: a loop task ends only after the running flag was cleared, so that an
\* iteration that failed while the service runs is followed by the next one,
\* and after the flag was cleared a task begins no further iteration.
C29_LoopsFollowTheFlag ==
    \A i \in DOMAIN scheduled_tasks :
        LET task == scheduled_tasks[i]
        IN  /\ Ended(task) => task.cleared
            /\ task.at # "raised"
            /\ ~task.begun_after_clear
            /\ (task.failures > 0 /\ ~task.cleared)
                  => (service_running /\ task.at \in {"sleep", "fetch"})

\* C29 witness: each loop has gone on to a second iteration after a failed
\* one while the service runs.
C29_Witness ==
    /\ service_running
    /\ \A name \in {"fetch_wolfx_data", "cleanup"} :
          \E i \in DOMAIN scheduled_tasks :
              LET task == scheduled_tasks[i]
              IN  /\ task.name = name /\ task.failures = 1 /\ task.iterations = 2
                  /\ task.at = "sleep" /\ ~task.cleared

\* both loops of a stopped service have ended inside the iteration they
\* were in, and the service runs again with two new loops
C29_StoppedWitness ==
    /\ service_running
    /\ Len(scheduled_tasks) = 4
    /\ \A i \in 1..2 : /\ Ended(scheduled_tasks[i])
                       /\ scheduled_tasks[i].iterations = 1
    /\ \A i \in 3..4 : scheduled_tasks[i].at = "sleep"

Estimated == intensity_estimates # << >>

\* C30 as stated: for fixed magnitude, depth and longitude the estimate for
\* the farther of two epicentral distances is strictly below the estimate for
\* the nearer one.
C30_StrictlyDecreasingAsStated ==
    Estimated => intensity_estimates[1] > intensity_estimates[2]

\* C30: the estimate for the farther distance is never above the estimate
\* for the nearer one; it is strictly below it iff the farther hypocentral
\* distance is above the floor of 5 km, the nearer estimate above 0 and the
\* farther estimate below 12.
C30_DecreasingUnlessClamped ==
    Estimated =>
        /\ intensity_estimates[1] >= intensity_estimates[2]
        /\ intensity_estimates[1] > intensity_estimates[2]
              <=> /\ HypocentralSquare(intensity_args.distances[2],
                                       intensity_args.depth_km) > 25
                  /\ intensity_estimates[1] > 0
                  /\ intensity_estimates[2] < 12 * IntensityUnit

\* C30 witness: two estimates strictly between 0 and 12, the farther one
\* strictly below the nearer one.
C30_Witness ==
    /\ Estimated
    /\ intensity_estimates[2] > 0
    /\ intensity_estimates[1] < 12 * IntensityUnit
    /\ intensity_estimates[1] > intensity_estimates[2]

\* both estimates are 0: a magnitude 2.0 at 100 km and at 400 km
C30_BothZero ==
    /\ Estimated
    /\ intensity_args.magnitude = 20 /\ intensity_args.distances = <<100, 400>>
    /\ intensity_estimates = <<0, 0>>

\* both estimates are 12: a magnitude 9.0 at depth 0, at 4 km and at 8 km
C30_BothTwelve ==
    /\ Estimated
    /\ intensity_args.magnitude = 90 /\ intensity_args.distances = <<4, 8>>
    /\ intensity_estimates = <<12 * IntensityUnit, 12 * IntensityUnit>>

\* both hypocentral distances are at the floor and the estimates are equal,
\* strictly between 0 and 12
C30_BothAtFloor ==
    /\ Estimated
    /\ intensity_args.distances = <<2, 4>> /\ intensity_args.depth_km = 3
    /\ intensity_estimates[1] = intensity_estimates[2]
    /\ intensity_estimates[1] > 0 /\ intensity_estimates[1] < 12 * IntensityUnit

\* the endpoint has connected to its backup URL, and reconnect() is under
\* way for the given number of failed attempts since then
RetryAfterBackupStream(name, failures) ==
    /\ conn_hist[name].connected_to = "backup"
    /\ conn_hist[name].since_success = failures
    /\ RetryUnderWay(name)

\* C31 as stated: after the stream of the backup URL was lost with a retried
\* error, the first maxRetries attempts of the new cycle target the primary
\* URL.
C31_PrimaryFirstAfterBackupLoss ==
    \A name \in Names, failures \in 0..(max_reconnect_retries - 1) :
        RetryAfterBackupStream(name, failures)
            => tasks[<<"rec", name>>].uri = "primary"

\* the first reconnect after the loss of the backup stream targets the
\* backup URL
C31_BackupFirstAfterBackupLoss ==
    /\ RetryAfterBackupStream("fan_studio_all", 0)
    /\ tasks[<<"rec", "fan_studio_all">>].uri = "backup"

\* what does hold: once the endpoint has connected to the backup URL, every
\* later attempt targets the backup URL
C31_BackupOnlyAfterBackupStream ==
    \A name \in Names :
        conn_hist[name].connected_to = "backup" =>
            /\ RetryUnderWay(name) => tasks[<<"rec", name>>].uri = "backup"
            /\ AttemptInFlight(name) => conn_hist[name].target = "backup"

\* and the new cycle goes on beyond maxRetries failed attempts
C31_BackupBeyondMaxRetries ==
    /\ RetryAfterBackupStream("fan_studio_all", max_reconnect_retries)
    /\ tasks[<<"rec", "fan_studio_all">>].uri = "backup"

\* C32: once disconnect(name) has returned, no reconnect of the endpoint is
\* pending and none of its reconnects attempts a connection: the task of
\* _schedule_reconnect and the task of reconnect() are not alive.
C32_NothingAfterDisconnect ==
    \A name \in Names :
        conn_hist[name].disconnected =>
            /\ ~Alive(tasks[<<"sched", name>>])
            /\ ~Alive(tasks[<<"rec", name>>])

\* disconnect has returned and reconnect() of the endpoint sleeps
C32_ReconnectSleepsAfterDisconnect ==
    \E name \in Names :
        /\ conn_hist[name].disconnected
        /\ disconnect_pc[name] = "returned"
        /\ tasks[<<"rec", name>>].pc = "sleeping"

\* disconnect has returned and a reconnect attempts a connection
C32_AttemptAfterDisconnect ==
    \E name \in Names :
        /\ conn_hist[name].disconnected
        /\ disconnect_pc[name] = "returned"
        /\ tasks[<<"rec", name>>].pc = "handshake"

\* disconnect has returned, after a close it awaited, and reconnect() sleeps
C32_ReconnectSleepsAfterClose ==
    \E name \in Names :
        /\ conn_hist[name].disconnected
        /\ conn_hist[name].connected_to # "none"
        /\ conn_hist[name].since_success = 0
        /\ tasks[<<"rec", name>>].pc = "sleeping"

\* the tasks of the endpoint that attempt a connection, hold a stream, wait
\* to reconnect or are about to schedule a reconnect
LiveChainTasks(name) == { k \in TaskKinds : Alive(tasks[<<k, name>>]) }

\* C33: for each endpoint at most one task is attempting a connection,
\* holding an open stream, waiting to reconnect or about to schedule the
\* reconnect.
C33_OneChainPerEndpoint ==
    \A name \in Names : Cardinality(LiveChainTasks(name)) <= 1

\* C33 witness: after a failed first attempt, the reconnect holds the open
\* stream of the endpoint and is its only live task.
C33_Witness ==
    \E name \in Names :
        /\ tasks[<<"init", name>>].pc = "done"
        /\ tasks[<<"rec", name>>].pc = "reading"
        /\ InSeq(connections, name)
        /\ LiveChainTasks(name) = {"rec"}

\* and while the next reconnect is about to be scheduled, the reconnect
\* that failed has ended
C33_ScheduleWitness ==
    \E name \in Names :
        /\ conn_hist[name].failed_primary >= 2
        /\ LiveChainTasks(name) = {"sched"}
        /\ tasks[<<"rec", name>>].pc = "done"

\* C34: once a stream of the endpoint has ended with a clean closure, no
\* task of the endpoint is alive any more: no reconnect is scheduled or
\* sleeping and no connection is attempted.
C34_NoReconnectAfterCleanClose ==
    \A name \in Names : conn_hist[name].closed_ok => NoTaskAlive(name)

\* C34 witness: the stream of an endpoint, opened by a reconnect, has ended
\* with a clean closure, the manager runs and has not been asked to stop, and
\* no task of the endpoint is alive.
C34_Witness ==
    \E name \in Names :
        /\ conn_hist[name].closed_ok
        /\ running /\ stop_pc = "idle"
        /\ tasks[<<"rec", name>>].pc = "done"
        /\ conn_hist[name].failed_primary > 0
        /\ NoTaskAlive(name)

\* the same of a stream opened by the first attempt, while the other
\* endpoint goes on retrying
C34_OtherRetriesWitness ==
    /\ conn_hist["p2p_main"].closed_ok
    /\ running /\ stop_pc = "idle"
    /\ tasks[<<"init", "p2p_main">>].pc = "done"
    /\ NoTaskAlive("p2p_main")
    /\ conn_hist["fan_studio_all"].failed_backup = 1
    /\ RetryUnderWay("fan_studio_all")

\* get_connection_status, lines 352-370: the fields read from the manager's
\* tables; uri is "none" when the endpoint has no connection info
get_connection_status(name) ==
    [ connected   |-> InSeq(connections, name),
      retry_count |-> connection_retry_counts[name],
      uri         |-> IF connection_info[name].present
                      THEN connection_info[name].uri ELSE "none" ]

\* connect, lines 89-135: a task of the endpoint is inside the async with
\* block of an open stream (a stream whose end the task has not yet seen
\* counts as open)
StreamHeld(name) ==
    \E k \in {"init", "rec"} :
        tasks[<<k, name>>].pc \in {"reading", "got_message", "handling",
                                   "handler_done", "got_close"}

\* C35 as stated: status(name).connected is true only while a stream of the
\* endpoint is open.
C35_ConnectedOnlyWhileOpen ==
    \A name \in Names : get_connection_status(name).connected => StreamHeld(name)

\* C35: the stream of an endpoint has ended with a clean closure, no task of
\* the endpoint is alive, the manager runs and has not been asked to stop,
\* and the status reports connected.
C35_ConnectedAfterCleanClose ==
    \E name \in Names :
        /\ conn_hist[name].closed_ok
        /\ NoTaskAlive(name)
        /\ running /\ stop_pc = "idle"
        /\ get_connection_status(name).connected

\* C35: while the manager runs and has not been asked to stop, the status
\* reports connected without an open stream only after a clean closure;
\* after an error and after the retries are exhausted it reports
\* connected = false.
C35_StaleOnlyAfterCleanClose ==
    \A name \in Names :
        (/\ stop_pc = "idle"
         /\ get_connection_status(name).connected
         /\ ~StreamHeld(name)) => conn_hist[name].closed_ok

\* C35: a stream has ended with an error and the status reports
\* connected = false
C35_NotConnectedAfterError ==
    \E name \in Names :
        /\ conn_hist[name].connected_to # "none"
        /\ conn_hist[name].last_error # NoError
        /\ ~conn_hist[name].closed_ok
        /\ ~StreamHeld(name)
        /\ ~get_connection_status(name).connected

\* C36 as stated: whenever an endpoint has connection info, status(name).uri
\* is the URL of its connection attempt in flight, or of the last one made.
C36_ReportsLatestAttempt ==
    \A name \in Names :
        connection_info[name].present =>
            get_connection_status(name).uri = conn_hist[name].target

\* C36: the endpoint holds an open stream to its backup URL, reached by
\* failover, and the status reports the primary URL.
C36_PrimaryReportedOnBackup ==
    \E name \in Names :
        /\ StreamHeld(name)
        /\ conn_hist[name].connected_to = "backup"
        /\ conn_hist[name].failed_primary > max_reconnect_retries
        /\ get_connection_status(name).connected
        /\ get_connection_status(name).uri = "primary"

\* C36: whenever an endpoint has connection info, status(name).uri is the
\* URL the endpoint was configured with, the one of its first attempt.
C36_ReportsConfiguredUrl ==
    \A name \in Names :
        connection_info[name].present => get_connection_status(name).uri = "primary"

\* C36: an attempt against the backup URL is in flight and the status
\* reports the primary URL
C36_PrimaryReportedDuringBackupAttempt ==
    \E name \in Names :
        /\ tasks[<<"rec", name>>].pc = "handshake"
        /\ conn_hist[name].target = "backup"
        /\ get_connection_status(name).uri = "primary"

\* the last call rejected an earthquake event
Rejected == last_call.called /\ last_call.event.is_earthquake /\ ~last_call.result

\* the events accepted earlier from the source of the event just handled
AcceptedFromSameSource ==
    { e \in accepted_events : _get_source_id(e) = _get_source_id(last_call.event) }

\* C37 as stated: an earthquake event is rejected only if an event of the
\* same quantized location, magnitude step and time bucket (for Global Quake,
\* of the same provider id) was accepted earlier from the same source.
C37_RejectedOnlySameKey ==
    Rejected => \E e \in AcceptedFromSameSource :
                    QuantizedKey(e) = QuantizedKey(last_call.event)

\* C37: an event with a zero latitude is rejected, and every event accepted
\* earlier from its source is of another magnitude step or another minute.
C37_ZeroCoordinateRejected ==
    /\ Rejected
    /\ last_call.event.latitude = 0
    /\ \A e \in AcceptedFromSameSource :
          \/ QuantizedKey(e).mag_grid # QuantizedKey(last_call.event).mag_grid
          \/ QuantizedKey(e).time_minute # QuantizedKey(last_call.event).time_minute

\* C37: an event at a place is rejected after an event at another place was
\* accepted: one has no latitude, the other a zero longitude.
C37_OtherPlaceRejected ==
    /\ Rejected
    /\ last_call.event.latitude = Missing
    /\ AcceptedFromSameSource # {}
    /\ \A e \in AcceptedFromSameSource : e.latitude = 3000 /\ e.longitude = 0

\* C37: an event both of whose coordinates are given and not zero is
\* rejected only if an event of the same quantized location, magnitude step
\* and time bucket was accepted earlier from the same source.
C37_LocatedRejectedOnlySameKey ==
    (/\ Rejected
     /\ last_call.event.latitude \notin {0, Missing}
     /\ last_call.event.longitude \notin {0, Missing})
        => \E e \in AcceptedFromSameSource :
               QuantizedKey(e) = QuantizedKey(last_call.event)

\* C37: a located event is rejected as the repeat of an accepted one
C37_LocatedRejected ==
    /\ Rejected
    /\ last_call.event.source = "fan_studio_cea"
    /\ last_call.event.latitude = 3000 /\ last_call.event.longitude = 10300

\* push_event has returned for an earthquake event that the deduplicator
\* accepted and that reached no destination: should_push_event suppressed
\* it, the message could not be built, there is no target session, or every
\* send failed
AcceptedNotDelivered(call) ==
    /\ call.pc = "done"
    /\ call.event.is_earthquake
    /\ call.accepted
    /\ ~call.result

\* the report number of the event is in processed_reports of the record of
\* its fingerprint and source
ReportOnRecord(event) ==
    LET fp == _generate_event_fingerprint(event, now)
        sid == _get_source_id(event)
    IN  /\ HasSource(recent_events, fp, sid)
        /\ event.updates \in recent_events[fp][sid].processed_reports

\* C38 as stated: when an accepted earthquake event reached no destination,
\* its report number stays on the record of its source, and an identical
\* event handed in by the other task is rejected by the deduplicator: the
\* two tasks never both hold the same event as accepted and not delivered.
C38_KeptAndRepeatRejected ==
    \A t1, t2 \in PushTaskIds :
        AcceptedNotDelivered(push_tasks[t1]) =>
            /\ ReportOnRecord(push_tasks[t1].event)
            /\ (t1 # t2 /\ push_tasks[t2].event = push_tasks[t1].event)
                  => ~AcceptedNotDelivered(push_tasks[t2])

\* C38: when an accepted earthquake event reached no destination, its report
\* number stays in processed_reports of the record of its source.
C38_ReportNumberKept ==
    \A t \in PushTaskIds :
        AcceptedNotDelivered(push_tasks[t]) => ReportOnRecord(push_tasks[t].event)

\* C38: for an event whose label is the one the record holds, the identical
\* event handed in by the other task is rejected.
C38_RepeatRejectedSameLabel ==
    \A t1, t2 \in PushTaskIds :
        (/\ t1 # t2
         /\ AcceptedNotDelivered(push_tasks[t1])
         /\ RecordHasLabel(push_tasks[t1].event)
         /\ push_tasks[t2].gates # << >>
         /\ push_tasks[t2].event = push_tasks[t1].event)
            => ~push_tasks[t2].accepted

\* C38: an event accepted by the deduplicator was suppressed by
\* should_push_event, and the identical event of the other task was rejected
\* by the deduplicator
C38_SuppressedRepeatRejected ==
    /\ AcceptedNotDelivered(push_tasks["ws"])
    /\ push_tasks["ws"].outcome # "pass"
    /\ push_tasks["http"].event = push_tasks["ws"].event
    /\ push_tasks["http"].gates = <<"dedup">>
    /\ ~push_tasks["http"].accepted

\* C38: the same for an event whose every send failed
C38_UndeliveredRepeatRejected ==
    /\ AcceptedNotDelivered(push_tasks["ws"])
    /\ Len(push_tasks["ws"].sends) = MaxSessions
    /\ push_tasks["http"].event = push_tasks["ws"].event
    /\ push_tasks["http"].gates = <<"dedup">>
    /\ ~push_tasks["http"].accepted

\* C38: a USGS determination labelled reviewed was accepted twice and reached
\* no destination either time
C38_ReviewedAcceptedTwice ==
    /\ AcceptedNotDelivered(push_tasks["ws"])
    /\ AcceptedNotDelivered(push_tasks["http"])
    /\ push_tasks["ws"].event = push_tasks["http"].event
    /\ push_tasks["ws"].event.info_type = "reviewed"

\* C39 as stated: a P2P message of code 552 that the P2P tsunami handler
\* parses is given to that handler, and its event is handed on.
C39_TsunamiForecastHandedOn ==
    (/\ last_dispatch.called
     /\ last_dispatch.message.connection = "p2p_main"
     /\ JMATsunamiP2PHandler_parse_message(last_dispatch.message))
        => /\ \E i \in 1..Len(last_dispatch.parsed_by) :
                 last_dispatch.parsed_by[i] = "jma_tsunami_p2p"
           /\ last_dispatch.event_from = "jma_tsunami_p2p"

\* C39: a well-formed P2P message of code 552 was given to the EEW handler
\* and to the earthquake information handler, and no event was handed on.
C39_TsunamiForecastDropped ==
    /\ last_dispatch.called
    /\ last_dispatch.message.connection = "p2p_main"
    /\ JMATsunamiP2PHandler_parse_message(last_dispatch.message)
    /\ last_dispatch.parsed_by = <<"jma_p2p", "jma_p2p_info">>
    /\ last_dispatch.event_from = ""

\* C39: parse_message of the P2P tsunami handler and of the FAN Studio JMA
\* handler is never called, whatever the messages.
C39_NeverInvoked ==
    invoked_handlers \subseteq DATA_HANDLERS \ {"jma_tsunami_p2p", "jma_fanstudio"}

\* C39: the P2P messages of codes 556 and 551 are handed on by their handlers
C39_EewAndInformationHandedOn ==
    /\ {"jma_p2p", "jma_p2p_info"} \subseteq invoked_handlers
    /\ last_dispatch.message.code = 551
    /\ last_dispatch.event_from = "jma_p2p_info"

\* C39: handlers of the FAN Studio, Wolfx and Global Quake connections have
\* been invoked
C39_OtherConnectionsInvoked ==
    {"china_tsunami_fanstudio", "jma_wolfx", "global_quake"} \subseteq invoked_handlers

\* the last message is a report of P2P or of Wolfx
ReportSequenced ==
    last_eew.called /\ last_eew.message.provider \in {"p2p_eew", "wolfx_jma_eew"}

\* the report number of the last message has not come from its provider before
NewReportNumber ==
    <<last_eew.message.provider, last_eew.message.report_number>> \notin last_eew.earlier

\* the decision of the report gate's rule for the provider's report number
GateOnReportNumber ==
    ReportRule(report_config, last_eew.message.is_final, last_eew.message.report_number,
               push_every_n(report_config, ReportController_get_source_id(last_eew.event)))

\* C40 as stated: for a report of P2P or Wolfx the event's updates is the
\* provider's report number, a report whose number has not come before is
\* accepted by the deduplicator, and the gate decides on that number.
C40_ReportNumberIsSequenceNumber ==
    ReportSequenced =>
        /\ last_eew.event.updates = last_eew.message.report_number
        /\ NewReportNumber => last_call.result
        /\ last_call.result => (last_report.called
                                  /\ last_report.result = GateOnReportNumber)

\* C40: the event built from a report of P2P or Wolfx has updates = 1,
\* whatever the provider's report number.
C40_UpdatesIsDefault ==
    ReportSequenced => last_eew.event.updates = updates_default

\* C40: report 2 of P2P, not final, comes after report 1 only and is
\* rejected by the deduplicator.
C40_SecondReportRejected ==
    /\ ReportSequenced
    /\ last_eew.message = [provider |-> "p2p_eew", report_number |-> 2, is_final |-> FALSE]
    /\ last_eew.earlier = { <<"p2p_eew", 1>> }
    /\ ~last_call.result

\* C40: report 2 of Wolfx, not final, the first one handled, is forwarded by
\* the gate, which with the divisor 3 suppresses a report number 2.
C40_GatedAsFirstReport ==
    /\ ReportSequenced
    /\ last_eew.message = [provider |-> "wolfx_jma_eew", report_number |-> 2,
                           is_final |-> FALSE]
    /\ last_eew.earlier = {}
    /\ last_call.result
    /\ last_report.called /\ last_report.result
    /\ ~GateOnReportNumber

\* C40: for FAN Studio JMA the event's updates is the provider's report
\* number, every new report number is accepted and gated on that number.
C40_FanStudioNumberKept ==
    (last_eew.called /\ last_eew.message.provider = "fan_studio_jma") =>
        /\ last_eew.event.updates = last_eew.message.report_number
        /\ NewReportNumber => last_call.result
        /\ last_call.result => (last_report.called
                                  /\ last_report.result = GateOnReportNumber)

\* C40: report 2 of FAN Studio JMA is accepted after report 1 and suppressed
\* by the gate
C40_FanStudioSecondReport ==
    /\ last_eew.called
    /\ last_eew.message = [provider |-> "fan_studio_jma", report_number |-> 2,
                           is_final |-> FALSE]
    /\ last_eew.earlier = { <<"fan_studio_jma", 1>> }
    /\ last_call.result
    /\ last_report.called /\ ~last_report.result

\* the deduplicator alone
DedupInit ==
    /\ DedupStart /\ GateStart(DefaultReportConfig) /\ ConnStart /\ FingerprintIdle
    /\ FilterIdle /\ PushIdle /\ HandlerIdle /\ LoopIdle /\ CalcIdle /\ DisconnectIdle /\ KeyIdle /\ RouteIdle /\ EewIdle

DedupSpec == DedupInit /\ [][DedupNext]_vars

\* the report-count gate alone, under every configuration
GateInit ==
    /\ DedupStart /\ ConnStart /\ FingerprintIdle /\ FilterIdle /\ PushIdle
    /\ HandlerIdle /\ LoopIdle /\ CalcIdle /\ DisconnectIdle /\ KeyIdle /\ RouteIdle /\ EewIdle
    /\ \E config \in ReportConfigs : GateStart(config)

GateSpec == GateInit /\ [][GateNext]_vars

\* the connection manager alone
ConnInit ==
    /\ DedupStart /\ GateStart(DefaultReportConfig) /\ ConnStart /\ FingerprintIdle
    /\ FilterIdle /\ PushIdle /\ HandlerIdle /\ LoopIdle /\ CalcIdle /\ DisconnectIdle /\ KeyIdle /\ RouteIdle /\ EewIdle

ConnSpec == ConnInit /\ [][ConnNext]_vars

\* the fingerprint function alone, on every pair of events
FingerprintInit ==
    /\ DedupStart /\ GateStart(DefaultReportConfig) /\ ConnStart /\ FingerprintStart
    /\ FilterIdle /\ PushIdle /\ HandlerIdle /\ LoopIdle /\ CalcIdle /\ DisconnectIdle /\ KeyIdle /\ RouteIdle /\ EewIdle

FingerprintSpec == FingerprintInit /\ [][FingerprintNext]_vars

\* the filters of the push manager alone, under the checked configurations
FilterInit ==
    /\ DedupStart /\ GateStart(DefaultReportConfig) /\ ConnStart /\ FingerprintIdle
    /\ PushIdle /\ HandlerIdle /\ LoopIdle /\ CalcIdle /\ DisconnectIdle /\ KeyIdle /\ RouteIdle /\ EewIdle
    /\ \E config \in FilterConfigs, clock \in UtcNows : FilterStart(config, clock)

FilterSpec == FilterInit /\ [][FilterNext]_vars

\* the scale filter alone, under its configurations
ScaleFilterInit ==
    /\ DedupStart /\ GateStart(DefaultReportConfig) /\ ConnStart /\ FingerprintIdle
    /\ PushIdle /\ HandlerIdle /\ LoopIdle /\ CalcIdle /\ DisconnectIdle /\ KeyIdle /\ RouteIdle /\ EewIdle
    /\ \E config \in ScaleFilterConfigs : FilterStart(config, 10 * HourSeconds)

ScaleFilterSpec == ScaleFilterInit /\ [][ScaleFilterNext]_vars

\* the push pipeline: two tasks, the deduplicator and the filters as built by
\* default, every list of target sessions
PushInit ==
    /\ DedupStart /\ GateStart(DefaultReportConfig) /\ ConnStart /\ FingerprintIdle
    /\ FilterStart(DefaultFilters, PushClock) /\ HandlerIdle /\ LoopIdle /\ CalcIdle /\ DisconnectIdle /\ KeyIdle /\ RouteIdle /\ EewIdle
    /\ \E sessions \in SessionLists : PushStart(sessions)

PushSpec == PushInit /\ [][PushNext]_vars

\* the fingerprint function applied twice to one event, as time passes
FingerprintAgainInit ==
    /\ DedupStart /\ GateStart(DefaultReportConfig) /\ ConnStart /\ FingerprintAgainStart
    /\ FilterIdle /\ PushIdle /\ HandlerIdle /\ LoopIdle /\ CalcIdle /\ DisconnectIdle /\ KeyIdle /\ RouteIdle /\ EewIdle

FingerprintAgainSpec == FingerprintAgainInit /\ [][FingerprintAgainNext]_vars

\* one heartbeat-detecting handler alone, each of the three in turn
HandlerInit ==
    /\ DedupStart /\ GateStart(DefaultReportConfig) /\ ConnStart /\ FingerprintIdle
    /\ FilterIdle /\ PushIdle /\ LoopIdle /\ CalcIdle /\ DisconnectIdle /\ KeyIdle /\ RouteIdle /\ EewIdle
    /\ \E source_id \in HandlerSources : HandlerStart(source_id)

HandlerSpec == HandlerInit /\ [][HandlerNext]_vars

\* the poller loop and the cleanup loop of the service
LoopInit ==
    /\ DedupStart /\ GateStart(DefaultReportConfig) /\ ConnStart /\ FingerprintIdle
    /\ FilterIdle /\ PushIdle /\ HandlerIdle /\ LoopIdle /\ CalcIdle /\ DisconnectIdle /\ KeyIdle /\ RouteIdle /\ EewIdle

LoopSpec == LoopInit /\ [][LoopNext]_vars

\* the intensity estimate alone, on every pair of distances
CalcInit ==
    /\ DedupStart /\ GateStart(DefaultReportConfig) /\ ConnStart /\ FingerprintIdle
    /\ FilterIdle /\ PushIdle /\ HandlerIdle /\ LoopIdle
    /\ DisconnectIdle /\ KeyIdle /\ RouteIdle /\ EewIdle
    /\ \E args \in CalcArgs : CalcStart(args)

CalcSpec == CalcInit /\ [][CalcNext]_vars

\* the connection manager with callers of disconnect
DisconnectInit ==
    /\ DedupStart /\ GateStart(DefaultReportConfig) /\ ConnStart /\ FingerprintIdle
    /\ FilterIdle /\ PushIdle /\ HandlerIdle /\ LoopIdle /\ CalcIdle /\ DisconnectIdle /\ KeyIdle /\ RouteIdle /\ EewIdle

DisconnectSpec == DisconnectInit /\ [][DisconnectNext]_vars

\* the deduplicator with the accepted events on record
KeyInit ==
    /\ DedupStart /\ GateStart(DefaultReportConfig) /\ ConnStart /\ FingerprintIdle
    /\ FilterIdle /\ PushIdle /\ HandlerIdle /\ LoopIdle /\ CalcIdle /\ DisconnectIdle /\ KeyIdle /\ RouteIdle /\ EewIdle

KeySpec == KeyInit /\ [][KeyNext]_vars

\* the registered handlers alone
RouteInit ==
    /\ DedupStart /\ GateStart(DefaultReportConfig) /\ ConnStart /\ FingerprintIdle
    /\ FilterIdle /\ PushIdle /\ HandlerIdle /\ LoopIdle /\ CalcIdle /\ DisconnectIdle /\ KeyIdle /\ RouteIdle /\ EewIdle

RouteSpec == RouteInit /\ [][RouteNext]_vars

\* the JMA EEW handlers in front of the deduplicator and the report gate
EewInit ==
    /\ DedupStart /\ GateStart(DefaultReportConfig) /\ ConnStart /\ FingerprintIdle
    /\ FilterIdle /\ PushIdle /\ HandlerIdle /\ LoopIdle /\ CalcIdle /\ DisconnectIdle /\ KeyIdle /\ RouteIdle /\ EewIdle

EewSpec == EewInit /\ [][EewNext]_vars

====
